---- MODULE Spec2Model ----
(***************************************************************************)
(* A model of the Hue bridge client library: resource records (Light,      *)
(* Control, Sensor, Group) with their dirty masks and the synchronization  *)
(* routine UpdateContext, and the colour conversion helpers of the gamut   *)
(* code (xyFromHex, xyFromRGB, reachable, closestPoint).                   *)
(***************************************************************************)
EXTENDS Integers, Sequences, FiniteSets, TLC

VARIABLES
    snap,     \* record id -> the in-memory snapshot of the record
    mask,     \* record id -> the uint16 dirty mask
    manual,   \* record id -> the public Manual field
    gamut,    \* record id -> the Light's gamut pointer (NilGamut or a gamut's name)
    focus,    \* the record the caller of this run works with
    edits,    \* number of calls so far that may write the snapshot
    op,       \* the last API call: [name, rec, arg]
    reqs,     \* the network requests the last API call issued, in order
    ret,      \* what the last API call returned
    mask0,    \* the mask when the last call's synchronization started
    hexIn,    \* conversion harness: the string handed to xyFromHex
    hexOut,   \* conversion harness: what xyFromHex returned for hexIn
    remote,   \* Bridge: the ids the bridge device lists under /lights, /sensors, /groups
    cache,    \* Bridge: the maps lights, controls, sensors, groups (nil or a set of records)
    calls,    \* Bridge: number of API calls made so far (a record carries the call that made it)
    lastUpdate, \* Bridge: the call number of the latest Bridge.Update, 0 if none
    listed,   \* Bridge: the kinds whose listing fetch was answered with a JSON object since then
    bop,      \* Bridge: the last call
    bfetch,   \* Bridge: the listing fetches of the last call, in order, with their outcome
    bret,     \* Bridge: the error the last call returned
    bout,     \* Bridge: the records the last call returned
    bpre,     \* Bridge: cache and listed as they were when the last call started
    lk,       \* Bridge lock: the thread holding the write lock and the threads holding the shared one
    tpc,      \* Bridge lock: where each thread is in its call
    tcall,    \* Bridge lock: the call each thread is in
    tdone,    \* Bridge lock: the number of calls each thread has started
    lmap,     \* Bridge lock: the lights map, nil or made
    acc,      \* Bridge lock: the last read or write of the map: by whom, holding what
    svalues,  \* Sensor values: the Values map, value name -> typed value
    smask,    \* Sensor values: the dirty mask of the sensor
    sreqs,    \* Sensor values: the number of requests issued for the sensor
    sget,     \* Sensor values: the last lookup and what it returned
    tri,      \* gamut: the triangle
    probe,    \* gamut: the last point asked about and the answers
    rt,       \* round trip: the colour converted to xy and back, and the results
    ack,      \* acknowledgement: a push of one record answered by a given reply, and its outcome
    dec,      \* decoding: a /lights listing, the getControls variant run on it, and the maps it left
    gf,       \* group fetch: the membership of a group before an Update, the reply, and the outcome
    rc,       \* record race: one Control, a thread in Update and a thread in SetOn, step by step
    tr,       \* transition: a duration handed to SetTransition and what is stored, read and sent
    gc        \* group class: a GroupClass, its JSON name and what the name decodes to

vars == <<snap, mask, manual, gamut, focus, edits, op, reqs, ret, mask0, hexIn, hexOut,
          remote, cache, calls, lastUpdate, listed, bop, bfetch, bret, bout, bpre,
          lk, tpc, tcall, tdone, lmap, acc, svalues, smask, sreqs, sget, tri, probe,
          rt, ack, dec, gf, rc, tr, gc>>

recVars == <<snap, mask, manual, gamut, focus, edits, op, reqs, ret, mask0>>
hexVars == <<hexIn, hexOut>>
bridgeVars == <<remote, cache, calls, lastUpdate, listed, bop, bfetch, bret, bout, bpre>>
lockVars == <<lk, tpc, tcall, tdone, lmap, acc>>
valVars == <<svalues, smask, sreqs, sget>>
gamVars == <<tri, probe>>
lateVars == <<rc, tr, gc>>
harnessVars == <<rt, ack, dec, gf, lateVars>>

(***************************************************************************)
(* Bounds of the model.                                                    *)
(***************************************************************************)
MaxEdits == 2
MaxHexLen == 7

(***************************************************************************)
(* The mask bits (const block, 1 << iota).                                 *)
(***************************************************************************)
maskXY == 1
maskOn == 2
maskHue == 4
maskAlert == 8
maskEffect == 16
maskBrightness == 32
maskSaturation == 64
maskTemperature == 128
maskName == 256
maskStartup == 512
maskLed == 1024

AllBits == {maskXY, maskOn, maskHue, maskAlert, maskEffect, maskBrightness,
            maskSaturation, maskTemperature, maskName, maskStartup, maskLed}

\* m & b for a single-bit b
And(m, b) == IF (m \div b) % 2 = 1 THEN b ELSE 0
\* m |= b
Or(m, b) == IF And(m, b) = b THEN m ELSE m + b
\* m &^ b
AndNot(m, b) == m - And(m, b)

BitsOf(m) == {b \in AllBits : And(m, b) # 0}

(***************************************************************************)
(* The records of the model: one of each kind the bridge decodes.          *)
(***************************************************************************)
LightIds == {"L1"}
ControlIds == {"C1"}
SensorIds == {"S1"}
GroupIds == {"G1"}
Records == LightIds \cup ControlIds \cup SensorIds \cup GroupIds
ControlLike == LightIds \cup ControlIds

Kind(r) == IF r \in LightIds THEN "light"
           ELSE IF r \in ControlIds THEN "control"
           ELSE IF r \in SensorIds THEN "sensor" ELSE "group"

\* the resource root of a record's kind
Root(r) == IF r \in SensorIds THEN "/sensors/"
           ELSE IF r \in GroupIds THEN "/groups/" ELSE "/lights/"

(***************************************************************************)
(* Enumerations and their JSON names.                                      *)
(***************************************************************************)
AlertNone == 0
AlertSelect == 1
AlertBreathe == 2
StartupDefault == 0
StartupResume == 1
startupCustom == 3

\* Alert.String
AlertString(a) == IF a = AlertSelect THEN "select"
                  ELSE IF a = AlertBreathe THEN "lselect" ELSE "none"
\* Effect.String
EffectString(e) == IF e THEN "colorloop" ELSE "none"
\* StartupMode.String
StartupModeString(s) == IF s = StartupDefault THEN "safety"
                        ELSE IF s = StartupResume THEN "powerfail" ELSE "custom"

(***************************************************************************)
(* Snapshots.  One record shape serves the four kinds; the fields a kind   *)
(* does not have keep their initial value.  NilGamut is the nil pointer.   *)
(***************************************************************************)
NilGamut == "nil"

InitSnap(color) ==
    [name |-> "lamp", uuid |-> "u0", make |-> "t0", model |-> "m0", product |-> "p0",
     on |-> FALSE, alert |-> AlertNone, effect |-> FALSE, xy |-> <<0, 0>>,
     hue |-> 0, bri |-> 0, sat |-> 0, ct |-> 0, transition |-> 0,
     colormode |-> color, reachable |-> FALSE,
     startupMode |-> StartupDefault, startupSettings |-> FALSE,
     led |-> "nil", values |-> "v0", updated |-> "t0",
     gtype |-> "Room", class |-> "Other", anyOn |-> FALSE, allOn |-> FALSE,
     lights |-> <<>>, controls |-> <<>>, sensors |-> <<>>]

(***************************************************************************)
(* The transport.  A response is a network failure, a JSON array of        *)
(* acknowledgement entries, or a JSON object (a resource representation,   *)
(* named by rep).                                                          *)
(***************************************************************************)
NetErr == [t |-> "neterr", items |-> <<>>, rep |-> "none"]
Arr(items) == [t |-> "array", items |-> items, rep |-> "none"]
Obj(rep) == [t |-> "object", items |-> <<>>, rep |-> rep]

Reps == {"full", "nostate"}

\* what the bridge may answer to a PUT and to a GET
PutResponses == {NetErr, Arr(<<"success">>), Arr(<<"success", "error">>), Obj("full")}
GetResponses == {NetErr, Arr(<<"error">>)} \cup {Obj(p) : p \in Reps}

\* the JSON fields a representation holds
RepHas(p) ==
    IF p \in {"full", "single", "nolights", "nosensors", "nomembers"}
                  THEN {"name", "uniqueid", "type", "modelid", "productname", "state",
                        "config", "action", "class", "lights", "sensors"}
    ELSE IF p = "nostate" THEN {"name", "uniqueid", "type", "modelid", "productname",
                                "action", "class", "lights", "sensors"}
    ELSE {}

\* the ids the bridge lists as members of the group (some no longer cached)
RepLights == <<"L1", "X9", "C1">>
RepSensors == <<"X8", "S1">>

\* the "lights" and "sensors" lists of a representation of the group: the
\* lists above, one member each, or an empty list
RepLightsOf(p) ==
    IF p \in {"nolights", "nomembers"} THEN <<>>
    ELSE IF p = "single" THEN <<"L1">> ELSE RepLights
RepSensorsOf(p) ==
    IF p \in {"nosensors", "nomembers"} THEN <<>>
    ELSE IF p = "single" THEN <<"S1">> ELSE RepSensors

EmptyBody == [k \in {} |-> 0]

\* the error built from one entry of an acknowledgement array: "remote" and
\* "remote2" stand for the messages built from the address and description of
\* the entries "error" and "error2", "invalid" for an entry with neither key
ErrorOf(item) ==
    CASE item = "error" -> "remote"
      [] item = "error2" -> "remote2"
      [] OTHER -> "invalid"

\* response.UnmarshalJSON reading the first entry of the array only (the
\* property C23 tells the two apart)
responseFirstEntry(resp) ==
    IF resp.t = "object" THEN "nil"
    ELSE IF Len(resp.items) > 0 /\ resp.items[1] # "success" THEN ErrorOf(resp.items[1])
    ELSE "nil"

\* response.UnmarshalJSON: "nil" or the error it returns
responseUnmarshalJSON(resp) ==
    IF resp.t = "object" THEN "nil"
    ELSE IF \E i \in 1..Len(resp.items) : resp.items[i] # "success"
         THEN LET i == CHOOSE j \in 1..Len(resp.items) :
                          /\ resp.items[j] # "success"
                          /\ \A k \in 1..(j-1) : resp.items[k] = "success"
              IN ErrorOf(resp.items[i])
    ELSE "nil"

\* Bridge.request: the log entry of one request, with the error it returns
\* and the body handed back (the object, when the reply is one; the callers
\* read it after a GET only)
request(m, u, d, resp) ==
    [m |-> m, u |-> u, d |-> d,
     err |-> IF resp.t = "neterr" THEN "transport" ELSE responseUnmarshalJSON(resp),
     body |-> IF m = "GET" /\ resp.t = "object" THEN resp.rep ELSE "none"]

\* the float NaN (what 0/0 gives), as a coordinate of a point <<x, y>>
NaN == -1000000000

IsNaN(p) == p[1] = NaN \/ p[2] = NaN
NaNPoint == <<NaN, NaN>>

(***************************************************************************)
(* Payload encoders.  A payload is a function from its JSON keys to the    *)
(* encoded values.                                                         *)
(***************************************************************************)
Key(cond, k) == IF cond THEN {k} ELSE {}

\* an encoder that writes every state field whatever the mask holds (the
\* property C5 tells it from controlState.marshal)
controlStateMarshalAll(s, m) ==
    [k \in {"transitiontime", "on", "xy", "hue", "alert", "effect", "bri", "sat", "ct"} |->
          CASE k = "transitiontime" -> s.transition
            [] k = "on" -> s.on
            [] k = "xy" -> s.xy
            [] k = "hue" -> s.hue
            [] k = "alert" -> AlertString(s.alert)
            [] k = "effect" -> EffectString(s.effect)
            [] k = "bri" -> s.bri
            [] k = "sat" -> s.sat
            [] OTHER -> s.ct]

\* controlState.marshal
controlStateMarshal(s, m) ==
    LET keys == {"transitiontime"}
                \cup Key(And(m, maskOn) # 0, "on")
                \cup Key(And(m, maskXY) # 0, "xy")
                \cup Key(And(m, maskHue) # 0, "hue")
                \cup Key(And(m, maskAlert) # 0, "alert")
                \cup Key(And(m, maskEffect) # 0, "effect")
                \cup Key(And(m, maskBrightness) # 0, "bri")
                \cup Key(And(m, maskSaturation) # 0, "sat")
                \cup Key(And(m, maskTemperature) # 0, "ct")
    IN [k \in keys |->
          CASE k = "transitiontime" -> s.transition
            [] k = "on" -> s.on
            [] k = "xy" -> s.xy
            [] k = "hue" -> s.hue
            [] k = "alert" -> AlertString(s.alert)
            [] k = "effect" -> EffectString(s.effect)
            [] k = "bri" -> s.bri
            [] k = "sat" -> s.sat
            [] OTHER -> s.ct]

\* json.Marshal of the state payload returns an UnsupportedValueError when
\* the payload holds a NaN: controlState.marshal then returns the error
MarshalFails(s, m) == And(m, maskXY) # 0 /\ IsNaN(s.xy)

\* Control.marshal
ControlMarshal(s, m) ==
    LET keys == Key(And(m, maskName) # 0, "name")
                \cup Key(And(m, maskStartup) # 0, "config")
    IN [k \in keys |->
          IF k = "name" THEN s.name
          ELSE [mode |-> StartupModeString(s.startupMode),
                customsettings |-> s.startupSettings]]

\* sensorConfig.marshal
sensorConfigMarshal(s, m) ==
    LET keys == Key(And(m, maskOn) # 0, "on")
                \cup Key(And(m, maskAlert) # 0, "alert")
                \cup Key(And(m, maskLed) # 0 /\ s.led # "nil", "ledindication")
    IN [k \in keys |->
          CASE k = "on" -> s.on
            [] k = "alert" -> AlertString(s.alert)
            [] OTHER -> s.led]

\* json.Marshal(map[string]string{"name": name}) of Sensor and Group
NameMarshal(s) == [k \in {"name"} |-> s.name]

(***************************************************************************)
(* Decoders of a fetched representation.  Each assigns field after field   *)
(* and stops at the first missing required field.                          *)
(***************************************************************************)
Decoded(s, err) == [snap |-> s, err |-> err]

\* json.Unmarshal into a controlState: Transition is never decoded
DecodeState(s) ==
    [s EXCEPT !.on = TRUE, !.alert = AlertSelect, !.effect = TRUE, !.xy = <<1, 1>>,
              !.hue = 1, !.bri = 1, !.sat = 1, !.ct = 1,
              !.colormode = TRUE, !.reachable = TRUE]

\* Control.unmarshal
ControlUnmarshal(s, has) ==
    LET s1 == [s EXCEPT !.name = "Remote"]
        s2 == [s1 EXCEPT !.uuid = "u1"]
        s3 == [s2 EXCEPT !.make = "t1"]
        s4 == [s3 EXCEPT !.model = "m1"]
        s5 == [s4 EXCEPT !.product = "p1"]
        s6 == DecodeState(s5)
        s7 == [s6 EXCEPT !.startupMode = StartupResume]
    IN IF "name" \notin has THEN Decoded(s, "decode")
       ELSE IF "uniqueid" \notin has THEN Decoded(s1, "decode")
       ELSE IF "type" \notin has THEN Decoded(s2, "decode")
       ELSE IF "modelid" \notin has THEN Decoded(s3, "decode")
       ELSE IF "productname" \notin has THEN Decoded(s4, "decode")
       ELSE IF "state" \notin has THEN Decoded(s5, "decode")
       ELSE IF "config" \in has THEN Decoded(s7, "nil")
       ELSE Decoded(s6, "nil")

\* Sensor.unmarshal
SensorUnmarshal(s, body) ==
    LET has == RepHas(body)
        s1 == [s EXCEPT !.name = "Remote"]
        s2 == [s1 EXCEPT !.make = "t1"]
        s3 == [s2 EXCEPT !.model = "m1"]
        s4 == IF "uniqueid" \in has THEN [s3 EXCEPT !.uuid = "u1"] ELSE s3
        s5 == IF "productname" \in has THEN [s4 EXCEPT !.product = "p1"] ELSE s4
        s6 == [s5 EXCEPT !.values = "v1", !.updated = "t1"]
        s7 == [s6 EXCEPT !.on = TRUE, !.alert = AlertSelect, !.reachable = TRUE,
                         !.led = "true"]
    IN IF body = "none" THEN Decoded(s, "decode")
       ELSE IF "name" \notin has THEN Decoded(s, "decode")
       ELSE IF "type" \notin has THEN Decoded(s1, "decode")
       ELSE IF "modelid" \notin has THEN Decoded(s2, "decode")
       ELSE IF "state" \notin has THEN Decoded(s5, "decode")
       ELSE IF "config" \notin has THEN Decoded(s6, "decode")
       ELSE Decoded(s7, "nil")

\* len(v) of the raw JSON of a list of two-character ids
JsonListLen(l) == IF Len(l) = 0 THEN 2 ELSE 1 + 5 * Len(l)

InLights(i) == i \in LightIds
InControls(i) == i \notin LightIds /\ i \in ControlIds
InSensors(i) == i \in SensorIds

\* Group.unmarshal without the decoding of "name" (the property C7 tells the
\* two apart)
GroupUnmarshalKeepName(s, body) ==
    LET has == RepHas(body)
        s2 == [s EXCEPT !.gtype = "Zone"]
        s3 == IF "action" \in has THEN DecodeState(s2) ELSE s2
        s4 == IF "class" \in has THEN [s3 EXCEPT !.class = "Kitchen"] ELSE s3
        s5 == IF "lights" \in has /\ JsonListLen(RepLightsOf(body)) > 4
              THEN [s4 EXCEPT !.lights = SelectSeq(RepLightsOf(body), InLights),
                              !.controls = SelectSeq(RepLightsOf(body), InControls)]
              ELSE s4
        s6 == IF "sensors" \in has /\ JsonListLen(RepSensorsOf(body)) > 4
              THEN [s5 EXCEPT !.sensors = SelectSeq(RepSensorsOf(body), InSensors)]
              ELSE s5
        s7 == IF "state" \in has THEN [s6 EXCEPT !.anyOn = TRUE, !.allOn = TRUE] ELSE s6
    IN IF body = "none" THEN Decoded(s, "decode")
       ELSE IF "name" \notin has THEN Decoded(s, "decode")
       ELSE IF "type" \notin has THEN Decoded(s, "decode")
       ELSE Decoded(s7, "nil")

\* Group.unmarshal
GroupUnmarshal(s, body) ==
    LET has == RepHas(body)
        s1 == [s EXCEPT !.name = "Remote"]
        s2 == [s1 EXCEPT !.gtype = "Zone"]
        s3 == IF "action" \in has THEN DecodeState(s2) ELSE s2
        s4 == IF "class" \in has THEN [s3 EXCEPT !.class = "Kitchen"] ELSE s3
        s5 == IF "lights" \in has /\ JsonListLen(RepLightsOf(body)) > 4
              THEN [s4 EXCEPT !.lights = SelectSeq(RepLightsOf(body), InLights),
                              !.controls = SelectSeq(RepLightsOf(body), InControls)]
              ELSE s4
        s6 == IF "sensors" \in has /\ JsonListLen(RepSensorsOf(body)) > 4
              THEN [s5 EXCEPT !.sensors = SelectSeq(RepSensorsOf(body), InSensors)]
              ELSE s5
        s7 == IF "state" \in has THEN [s6 EXCEPT !.anyOn = TRUE, !.allOn = TRUE] ELSE s6
    IN IF body = "none" THEN Decoded(s, "decode")
       ELSE IF "name" \notin has THEN Decoded(s, "decode")
       ELSE IF "type" \notin has THEN Decoded(s1, "decode")
       ELSE Decoded(s7, "nil")

(***************************************************************************)
(* Synchronization.  rs is the sequence of replies the bridge gives to the *)
(* requests of one call, in order.  The result holds the snapshot and mask *)
(* the call leaves, the requests it issued and the error it returns.       *)
(***************************************************************************)
Out(s, m, q, e) == [snap |-> s, mask |-> m, reqs |-> q, ret |-> e]

\* Control.UpdateContext without the final "c.mask = 0" (the property C4
\* tells the two apart)
ControlUpdateContextKeepMask(r, s, m, rs) ==
    IF m = 0
    THEN LET q == request("GET", <<"/lights/", r, "">>, EmptyBody, rs[1])
             u == ControlUnmarshal(s, RepHas(q.body))
         IN IF q.err # "nil" THEN Out(s, m, <<q>>, q.err)
            ELSE IF q.body = "none" THEN Out(s, m, <<q>>, "decode")
            ELSE Out(u.snap, m, <<q>>, u.err)
    ELSE LET ident == m >= maskName
             q1 == request("PUT", <<"/lights/", r, "">>, ControlMarshal(s, m), rs[1])
             m1 == AndNot(m, maskStartup)
             m2 == AndNot(m1, maskName)
             m3 == IF ident THEN m2 ELSE m
             q2 == request("PUT", <<"/lights/", r, "/state">>,
                           controlStateMarshal(s, m3), IF ident THEN rs[2] ELSE rs[1])
             pre == IF ident THEN <<q1>> ELSE <<>>
         IN IF ident /\ q1.err # "nil" THEN Out(s, m1, <<q1>>, q1.err)
            ELSE IF ident /\ m2 = 0 THEN Out(s, m2, <<q1>>, "nil")
            ELSE IF MarshalFails(s, m3) THEN Out(s, m3, pre, "unsupported")
            ELSE Out(s, m3, pre \o <<q2>>, q2.err)

\* Control.UpdateContext (also Light's, which embeds Control)
ControlUpdateContext(r, s, m, rs) ==
    IF m = 0
    THEN LET q == request("GET", <<"/lights/", r, "">>, EmptyBody, rs[1])
             u == ControlUnmarshal(s, RepHas(q.body))
         IN IF q.err # "nil" THEN Out(s, m, <<q>>, q.err)
            ELSE IF q.body = "none" THEN Out(s, m, <<q>>, "decode")
            ELSE Out(u.snap, m, <<q>>, u.err)
    ELSE LET ident == m >= maskName
             b1 == ControlMarshal(s, m)
             m1 == AndNot(m, maskStartup)
             q1 == request("PUT", <<"/lights/", r, "">>, b1, rs[1])
             m2 == AndNot(m1, maskName)
             m3 == IF ident THEN m2 ELSE m
             r2 == IF ident THEN rs[2] ELSE rs[1]
             q2 == request("PUT", <<"/lights/", r, "/state">>,
                           controlStateMarshal(s, m3), r2)
             pre == IF ident THEN <<q1>> ELSE <<>>
         IN IF ident /\ q1.err # "nil" THEN Out(s, m1, <<q1>>, q1.err)
            ELSE IF ident /\ m2 = 0 THEN Out(s, m2, <<q1>>, "nil")
            ELSE IF MarshalFails(s, m3) THEN Out(s, m3, pre, "unsupported")
            ELSE IF q2.err # "nil" THEN Out(s, m3, pre \o <<q2>>, q2.err)
            ELSE Out(s, 0, pre \o <<q2>>, "nil")

\* Sensor.UpdateContext with the two PUTs in the other order (the property
\* C6 tells the two apart)
SensorUpdateContextConfigFirst(r, s, m, rs) ==
    IF m = 0
    THEN LET q == request("GET", <<"/sensors/", r, "">>, EmptyBody, rs[1])
             u == SensorUnmarshal(s, q.body)
         IN IF q.err # "nil" THEN Out(s, m, <<q>>, q.err)
            ELSE Out(u.snap, m, <<q>>, u.err)
    ELSE LET ident == And(m, maskName) # 0
             m2 == AndNot(m, maskName)
             q2 == request("PUT", <<"/sensors/", r, "/config">>,
                           sensorConfigMarshal(s, m2), rs[1])
             q1 == request("PUT", <<"/sensors/", r, "">>, NameMarshal(s),
                           IF m2 = 0 THEN rs[1] ELSE rs[2])
         IN IF m2 # 0 /\ q2.err # "nil" THEN Out(s, m, <<q2>>, q2.err)
            ELSE IF ~ident THEN Out(s, 0, <<q2>>, "nil")
            ELSE IF q1.err # "nil"
                 THEN Out(s, maskName, (IF m2 = 0 THEN <<>> ELSE <<q2>>) \o <<q1>>, q1.err)
            ELSE Out(s, 0, (IF m2 = 0 THEN <<>> ELSE <<q2>>) \o <<q1>>, "nil")

\* Sensor.UpdateContext with a rollback: a failed config PUT puts the name bit
\* back (the property C22 tells the two apart)
SensorUpdateContextRollback(r, s, m, rs) ==
    IF m = 0
    THEN LET q == request("GET", <<"/sensors/", r, "">>, EmptyBody, rs[1])
             u == SensorUnmarshal(s, q.body)
         IN IF q.err # "nil" THEN Out(s, m, <<q>>, q.err)
            ELSE Out(u.snap, m, <<q>>, u.err)
    ELSE LET ident == And(m, maskName) # 0
             q1 == request("PUT", <<"/sensors/", r, "">>, NameMarshal(s), rs[1])
             m2 == AndNot(m, maskName)
             m3 == IF ident THEN m2 ELSE m
             r2 == IF ident THEN rs[2] ELSE rs[1]
             q2 == request("PUT", <<"/sensors/", r, "/config">>,
                           sensorConfigMarshal(s, m3), r2)
             pre == IF ident THEN <<q1>> ELSE <<>>
         IN IF ident /\ q1.err # "nil" THEN Out(s, m, <<q1>>, q1.err)
            ELSE IF ident /\ m2 = 0 THEN Out(s, m2, <<q1>>, "nil")
            ELSE IF q2.err # "nil" THEN Out(s, m, pre \o <<q2>>, q2.err)
            ELSE Out(s, 0, pre \o <<q2>>, "nil")

\* Sensor.UpdateContext
SensorUpdateContext(r, s, m, rs) ==
    IF m = 0
    THEN LET q == request("GET", <<"/sensors/", r, "">>, EmptyBody, rs[1])
             u == SensorUnmarshal(s, q.body)
         IN IF q.err # "nil" THEN Out(s, m, <<q>>, q.err)
            ELSE Out(u.snap, m, <<q>>, u.err)
    ELSE LET ident == And(m, maskName) # 0
             q1 == request("PUT", <<"/sensors/", r, "">>, NameMarshal(s), rs[1])
             m2 == AndNot(m, maskName)
             m3 == IF ident THEN m2 ELSE m
             r2 == IF ident THEN rs[2] ELSE rs[1]
             q2 == request("PUT", <<"/sensors/", r, "/config">>,
                           sensorConfigMarshal(s, m3), r2)
             pre == IF ident THEN <<q1>> ELSE <<>>
         IN IF ident /\ q1.err # "nil" THEN Out(s, m, <<q1>>, q1.err)
            ELSE IF ident /\ m2 = 0 THEN Out(s, m2, <<q1>>, "nil")
            ELSE IF q2.err # "nil" THEN Out(s, m3, pre \o <<q2>>, q2.err)
            ELSE Out(s, 0, pre \o <<q2>>, "nil")

\* Group.UpdateContext
GroupUpdateContext(r, s, m, rs) ==
    IF m = 0
    THEN LET q == request("GET", <<"/groups/", r, "">>, EmptyBody, rs[1])
             u == GroupUnmarshal(s, q.body)
         IN IF q.err # "nil" THEN Out(s, m, <<q>>, q.err)
            ELSE Out(u.snap, m, <<q>>, u.err)
    ELSE LET ident == And(m, maskName) # 0
             q1 == request("PUT", <<"/groups/", r, "">>, NameMarshal(s), rs[1])
             m2 == AndNot(m, maskName)
             m3 == IF ident THEN m2 ELSE m
             r2 == IF ident THEN rs[2] ELSE rs[1]
             q2 == request("PUT", <<"/groups/", r, "/action">>,
                           controlStateMarshal(s, m3), r2)
             pre == IF ident THEN <<q1>> ELSE <<>>
         IN IF ident /\ q1.err # "nil" THEN Out(s, m, <<q1>>, q1.err)
            ELSE IF ident /\ m2 = 0 THEN Out(s, m2, <<q1>>, "nil")
            ELSE IF MarshalFails(s, m3) THEN Out(s, m3, pre, "unsupported")
            ELSE IF q2.err # "nil" THEN Out(s, m3, pre \o <<q2>>, q2.err)
            ELSE Out(s, 0, pre \o <<q2>>, "nil")

\* the UpdateContext method of the record's kind
UpdateContext(r, s, m, rs) ==
    IF r \in SensorIds THEN SensorUpdateContext(r, s, m, rs)
    ELSE IF r \in GroupIds THEN GroupUpdateContext(r, s, m, rs)
    ELSE ControlUpdateContext(r, s, m, rs)

(***************************************************************************)
(* Colour conversion.  Floating point values are kept as integers scaled   *)
(* by Unit (chromaticities, segment parameters) or by Fine (linear light   *)
(* and the matrix coefficients); NaN stands for the float NaN that a 0/0   *)
(* produces, and a point is a pair <<x, y>>.                               *)
(***************************************************************************)
Unit == 10000
Fine == 1000000
\* var defaultGamut
defaultGamut == [Red |-> <<6920, 3080>>, Blue |-> <<1700, 7000>>, Green |-> <<1530, 480>>]
\* a gamut a device reports in "colorgamut" (decoded by gamut.UnmarshalJSON)
deviceGamut == [Red |-> <<6750, 3220>>, Blue |-> <<4090, 5180>>, Green |-> <<1670, 400>>]

\* the triangle a non-nil gamut pointer refers to
Triangle(g) == IF g = "device" THEN deviceGamut ELSE defaultGamut

\* the tests of reachable on the numerators alone, as if the common
\* denominator of j and k were positive
reachableUnsigned(g, x, y) ==
    LET a == <<g.Green[1] - g.Red[1], g.Green[2] - g.Red[2]>>
        b == <<g.Blue[1] - g.Red[1], g.Blue[2] - g.Red[2]>>
        c == <<x - g.Red[1], y - g.Red[2]>>
        den == a[1] * b[2] - a[2] * b[1]
        nj == c[1] * b[2] - c[2] * b[1]
        nk == a[1] * c[2] - a[2] * c[1]
    IN IF IsNaN(<<x, y>>) \/ den = 0 THEN FALSE
       ELSE nj >= 0 /\ nk >= 0 /\ nj + nk <= (IF den > 0 THEN den ELSE -den)

\* gamut.reachable: j >= 0 && k >= 0 && j+k <= 1, with j and k compared as the
\* exact quotients nj/den and nk/den; a zero den or a NaN makes every test false
reachable(g, x, y) ==
    LET a == <<g.Green[1] - g.Red[1], g.Green[2] - g.Red[2]>>
        b == <<g.Blue[1] - g.Red[1], g.Blue[2] - g.Red[2]>>
        c == <<x - g.Red[1], y - g.Red[2]>>
        den == a[1] * b[2] - a[2] * b[1]
        nj == c[1] * b[2] - c[2] * b[1]
        nk == a[1] * c[2] - a[2] * c[1]
    IN IF IsNaN(<<x, y>>) \/ den = 0 THEN FALSE
       ELSE IF den > 0 THEN nj >= 0 /\ nk >= 0 /\ nj + nk <= den
       ELSE nj <= 0 /\ nk <= 0 /\ nj + nk >= den

\* the projection on the line through a and b, without the clamping of k
closestUnclamped(a, b, x, y) ==
    LET h == <<x - a[1], y - a[2]>>
        j == <<b[1] - a[1], b[2] - a[2]>>
        num == h[1] * j[1] + h[2] * j[2]
        den == j[1] * j[1] + j[2] * j[2]
        k == IF num < 0 THEN -((-num) \div (den \div Unit)) ELSE num \div (den \div Unit)
    IN IF IsNaN(<<x, y>>) \/ den \div Unit = 0 THEN NaNPoint
       ELSE <<a[1] + (j[1] * k) \div Unit, a[2] + (j[2] * k) \div Unit>>

\* closest: the point of segment a-b nearest to (x, y)
closest(a, b, x, y) ==
    LET h == <<x - a[1], y - a[2]>>
        j == <<b[1] - a[1], b[2] - a[2]>>
        num == h[1] * j[1] + h[2] * j[2]
        den == j[1] * j[1] + j[2] * j[2]
        k == IF num < 0 THEN 0
             ELSE IF num > den THEN Unit
             ELSE num \div (den \div Unit)
    IN IF IsNaN(<<x, y>>) \/ den \div Unit = 0 THEN NaNPoint
       ELSE <<a[1] + (j[1] * k) \div Unit, a[2] + (j[2] * k) \div Unit>>

\* the squared distance of two points (the code compares the square roots)
Dist2(p, x, y) == (x - p[1]) * (x - p[1]) + (y - p[2]) * (y - p[2])

\* gamut.closestPoint
closestPoint(g, x, y) ==
    LET pa == closest(g.Red, g.Green, x, y)
        pb == closest(g.Blue, g.Red, x, y)
        pc == closest(g.Green, g.Blue, x, y)
        ad == Dist2(pa, x, y)
        bd == Dist2(pb, x, y)
        cd == Dist2(pc, x, y)
        l == IF bd < ad THEN bd ELSE ad
        f == IF bd < ad THEN pb ELSE pa
    IN IF IsNaN(<<x, y>>) \/ IsNaN(pa) \/ IsNaN(pb) \/ IsNaN(pc) THEN NaNPoint
       ELSE IF cd < l THEN pc ELSE f

\* the inverse sRGB gamma of xyFromRGB for each channel value 0..255, scaled by
\* Fine: c/12.92 up to 0.04045, ((c+0.055)/1.055)^2.4 above
GammaTable == <<
    0, 304, 607, 911, 1214, 1518, 1821, 2125,
    2428, 2732, 3035, 3347, 3677, 4025, 4391, 4777,
    5182, 5605, 6049, 6512, 6995, 7499, 8023, 8568,
    9134, 9721, 10330, 10960, 11612, 12286, 12983, 13702,
    14444, 15209, 15996, 16807, 17642, 18500, 19382, 20289,
    21219, 22174, 23153, 24158, 25187, 26241, 27321, 28426,
    29557, 30713, 31896, 33105, 34340, 35601, 36889, 38204,
    39546, 40915, 42311, 43735, 45186, 46665, 48172, 49707,
    51269, 52861, 54480, 56128, 57805, 59511, 61246, 63010,
    64803, 66626, 68478, 70360, 72272, 74214, 76185, 78187,
    80220, 82283, 84376, 86500, 88656, 90842, 93059, 95307,
    97587, 99899, 102242, 104616, 107023, 109462, 111932, 114435,
    116971, 119538, 122139, 124772, 127438, 130136, 132868, 135633,
    138432, 141263, 144128, 147027, 149960, 152926, 155926, 158961,
    162029, 165132, 168269, 171441, 174647, 177888, 181164, 184475,
    187821, 191202, 194618, 198069, 201556, 205079, 208637, 212231,
    215861, 219526, 223228, 226966, 230740, 234551, 238398, 242281,
    246201, 250158, 254152, 258183, 262251, 266356, 270498, 274677,
    278894, 283149, 287441, 291771, 296138, 300544, 304987, 309469,
    313989, 318547, 323143, 327778, 332452, 337164, 341914, 346704,
    351533, 356400, 361307, 366253, 371238, 376262, 381326, 386429,
    391572, 396755, 401978, 407240, 412543, 417885, 423268, 428690,
    434154, 439657, 445201, 450786, 456411, 462077, 467784, 473531,
    479320, 485150, 491021, 496933, 502886, 508881, 514918, 520996,
    527115, 533276, 539479, 545724, 552011, 558340, 564712, 571125,
    577580, 584078, 590619, 597202, 603827, 610496, 617207, 623960,
    630757, 637597, 644480, 651406, 658375, 665387, 672443, 679542,
    686685, 693872, 701102, 708376, 715694, 723055, 730461, 737910,
    745404, 752942, 760525, 768151, 775822, 783538, 791298, 799103,
    806952, 814847, 822786, 830770, 838799, 846873, 854993, 863157,
    871367, 879622, 887923, 896269, 904661, 913099, 921582, 930111,
    938686, 947307, 955973, 964686, 973445, 982251, 991102, 1000000>>

Linear(v) == GammaTable[v + 1]

\* (a * b) / Fine for a, b <= Fine, without leaving 32 bits
MulFine(a, b) == (a * (b \div 1000)) \div 1000 + (a * (b % 1000)) \div Fine

\* n / d for 0 <= n <= d, scaled by Unit
Ratio(n, d) == ((n * 1000) \div d) * 10 + (((n * 1000) % d) * 10) \div d

\* xyFromRGB
xyFromRGB(c, red, green, blue) ==
    LET r == Linear(red)
        g == Linear(green)
        b == Linear(blue)
        x == MulFine(r, 664511) + MulFine(g, 154324) + MulFine(b, 162028)
        y == MulFine(r, 283881) + MulFine(g, 668433) + MulFine(b, 47685)
        z == MulFine(r, 88) + MulFine(g, 72310) + MulFine(b, 986039)
        cx == IF x + y + z = 0 THEN NaN ELSE Ratio(x, x + y + z)
        cy == IF x + y + z = 0 THEN NaN ELSE Ratio(y, x + y + z)
    IN IF reachable(c, cx, cy) THEN <<cx, cy>> ELSE closestPoint(c, cx, cy)

\* the same gamma curve continued for the channel values 256..1023 (a linear
\* light above 1, which rgbFromXy meets before it normalises)
GammaOver == <<
    1008944, 1017935, 1026973, 1036057, 1045187, 1054365, 1063589, 1072860,
    1082179, 1091544, 1100956, 1110416, 1119922, 1129476, 1139078, 1148727,
    1158423, 1168167, 1177959, 1187798, 1197685, 1207620, 1217603, 1227634,
    1237713, 1247840, 1258015, 1268238, 1278510, 1288830, 1299199, 1309616,
    1320081, 1330595, 1341158, 1351770, 1362430, 1373139, 1383898, 1394705,
    1405561, 1416467, 1427421, 1438425, 1449479, 1460581, 1471733, 1482935,
    1494186, 1505487, 1516837, 1528238, 1539688, 1551188, 1562738, 1574338,
    1585988, 1597688, 1609438, 1621239, 1633090, 1644991, 1656943, 1668945,
    1680998, 1693101, 1705256, 1717460, 1729716, 1742023, 1754380, 1766789,
    1779248, 1791759, 1804320, 1816933, 1829598, 1842313, 1855080, 1867899,
    1880769, 1893690, 1906664, 1919689, 1932765, 1945894, 1959074, 1972306,
    1985591, 1998927, 2012315, 2025756, 2039249, 2052794, 2066391, 2080041,
    2093743, 2107498, 2121306, 2135166, 2149078, 2163044, 2177062, 2191133,
    2205257, 2219434, 2233664, 2247947, 2262283, 2276672, 2291115, 2305611,
    2320160, 2334763, 2349419, 2364129, 2378892, 2393709, 2408579, 2423504,
    2438482, 2453514, 2468600, 2483740, 2498934, 2514182, 2529484, 2544840,
    2560251, 2575716, 2591235, 2606809, 2622437, 2638119, 2653857, 2669648,
    2685495, 2701396, 2717352, 2733363, 2749429, 2765549, 2781725, 2797956,
    2814242, 2830583, 2846979, 2863431, 2879938, 2896500, 2913117, 2929791,
    2946519, 2963304, 2980143, 2997039, 3013990, 3030998, 3048061, 3065179,
    3082354, 3099585, 3116872, 3134215, 3151614, 3169070, 3186581, 3204149,
    3221774, 3239454, 3257192, 3274985, 3292836, 3310743, 3328706, 3346727,
    3364804, 3382938, 3401129, 3419376, 3437681, 3456043, 3474462, 3492938,
    3511471, 3530062, 3548709, 3567414, 3586177, 3604997, 3623874, 3642809,
    3661802, 3680852, 3699960, 3719125, 3738348, 3757630, 3776969, 3796366,
    3815821, 3835334, 3854905, 3874534, 3894222, 3913967, 3933771, 3953633,
    3973554, 3993533, 4013571, 4033667, 4053821, 4074035, 4094307, 4114637,
    4135027, 4155475, 4175982, 4196548, 4217173, 4237857, 4258600, 4279402,
    4300264, 4321184, 4342164, 4363203, 4384301, 4405459, 4426677, 4447953,
    4469290, 4490685, 4512141, 4533656, 4555231, 4576866, 4598560, 4620314,
    4642129, 4664003, 4685937, 4707931, 4729986, 4752100, 4774275, 4796510,
    4818805, 4841161, 4863577, 4886053, 4908590, 4931188, 4953846, 4976564,
    4999344, 5022184, 5045084, 5068046, 5091068, 5114151, 5137296, 5160501,
    5183767, 5207094, 5230483, 5253932, 5277443, 5301015, 5324648, 5348343,
    5372099, 5395917, 5419796, 5443736, 5467738, 5491802, 5515928, 5540115,
    5564364, 5588674, 5613047, 5637481, 5661977, 5686536, 5711156, 5735838,
    5760583, 5785390, 5810259, 5835190, 5860183, 5885239, 5910357, 5935538,
    5960781, 5986086, 6011454, 6036885, 6062378, 6087934, 6113553, 6139235,
    6164979, 6190786, 6216656, 6242589, 6268586, 6294645, 6320767, 6346952,
    6373201, 6399512, 6425887, 6452326, 6478827, 6505392, 6532021, 6558713,
    6585468, 6612287, 6639170, 6666116, 6693126, 6720200, 6747337, 6774538,
    6801803, 6829132, 6856525, 6883982, 6911503, 6939088, 6966738, 6994451,
    7022229, 7050070, 7077976, 7105947, 7133982, 7162081, 7190244, 7218473,
    7246765, 7275123, 7303544, 7332031, 7360582, 7389198, 7417879, 7446625,
    7475435, 7504311, 7533251, 7562256, 7591327, 7620462, 7649663, 7678929,
    7708260, 7737656, 7767118, 7796645, 7826237, 7855894, 7885618, 7915406,
    7945260, 7975180, 8005166, 8035217, 8065333, 8095516, 8125764, 8156078,
    8186458, 8216904, 8247416, 8277994, 8308637, 8339347, 8370123, 8400966,
    8431874, 8462848, 8493889, 8524997, 8556170, 8587410, 8618716, 8650089,
    8681529, 8713035, 8744607, 8776246, 8807952, 8839725, 8871564, 8903470,
    8935443, 8967483, 8999589, 9031763, 9064004, 9096311, 9128686, 9161128,
    9193637, 9226213, 9258857, 9291568, 9324346, 9357191, 9390104, 9423084,
    9456132, 9489247, 9522430, 9555680, 9588998, 9622384, 9655837, 9689359,
    9722947, 9756604, 9790329, 9824121, 9857982, 9891910, 9925907, 9959971,
    9994104, 10028304, 10062573, 10096910, 10131316, 10165790, 10200332, 10234942,
    10269621, 10304368, 10339184, 10374068, 10409021, 10444042, 10479132, 10514291,
    10549518, 10584814, 10620179, 10655613, 10691116, 10726687, 10762328, 10798037,
    10833816, 10869663, 10905580, 10941566, 10977621, 11013745, 11049938, 11086201,
    11122533, 11158935, 11195405, 11231946, 11268555, 11305235, 11341983, 11378802,
    11415690, 11452647, 11489675, 11526772, 11563939, 11601175, 11638482, 11675858,
    11713305, 11750821, 11788407, 11826064, 11863790, 11901587, 11939453, 11977390,
    12015397, 12053475, 12091622, 12129840, 12168129, 12206487, 12244917, 12283416,
    12321986, 12360627, 12399339, 12438121, 12476973, 12515897, 12554891, 12593956,
    12633091, 12672298, 12711575, 12750924, 12790343, 12829833, 12869395, 12909027,
    12948731, 12988505, 13028351, 13068268, 13108256, 13148316, 13188447, 13228649,
    13268923, 13309268, 13349684, 13390173, 13430732, 13471363, 13512066, 13552841,
    13593687, 13634605, 13675594, 13716656, 13757789, 13798994, 13840271, 13881620,
    13923041, 13964534, 14006099, 14047736, 14089445, 14131226, 14173080, 14215005,
    14257003, 14299073, 14341216, 14383431, 14425718, 14468078, 14510510, 14553015,
    14595592, 14638242, 14680965, 14723760, 14766628, 14809568, 14852581, 14895667,
    14938826, 14982058, 15025363, 15068740, 15112191, 15155714, 15199311, 15242981,
    15286723, 15330539, 15374428, 15418390, 15462426, 15506535, 15550717, 15594972,
    15639301, 15683703, 15728179, 15772728, 15817351, 15862047, 15906817, 15951660,
    15996577, 16041568, 16086632, 16131771, 16176983, 16222269, 16267629, 16313062,
    16358570, 16404151, 16449807, 16495537, 16541340, 16587218, 16633170, 16679196,
    16725296, 16771471, 16817720, 16864043, 16910440, 16956912, 17003458, 17050079,
    17096774, 17143544, 17190388, 17237307, 17284301, 17331369, 17378512, 17425729,
    17473021, 17520388, 17567830, 17615347, 17662939, 17710605, 17758347, 17806163,
    17854054, 17902021, 17950063, 17998179, 18046371, 18094638, 18142981, 18191398,
    18239891, 18288459, 18337103, 18385822, 18434616, 18483486, 18532431, 18581452,
    18630548, 18679720, 18728968, 18778291, 18827690, 18877165, 18926715, 18976341,
    19026043, 19075821, 19125675, 19175605, 19225610, 19275692, 19325850, 19376083,
    19426393, 19476779, 19527241, 19577779, 19628394, 19679084, 19729851, 19780695,
    19831614, 19882610, 19933683, 19984832, 20036057, 20087359, 20138737, 20190192,
    20241724, 20293332, 20345017, 20396778, 20448617, 20500532, 20552524, 20604593,
    20656738, 20708961, 20761260, 20813637, 20866090, 20918620, 20971228, 21023913,
    21076674, 21129513, 21182429, 21235423, 21288493, 21341641, 21394866, 21448169,
    21501549, 21555006, 21608541, 21662153, 21715843, 21769610, 21823455, 21877378,
    21931378, 21985455, 22039611, 22093844, 22148155, 22202544, 22257011, 22311555,
    22366178, 22420878, 22475656, 22530513, 22585447, 22640459, 22695550, 22750718,
    22805965, 22861290, 22916693, 22972174, 23027734, 23083372, 23139088, 23194883,
    23250756, 23306707, 23362737, 23418845, 23475032, 23531298, 23587642, 23644065,
    23700566, 23757146, 23813805, 23870542, 23927359, 23984254, 24041228, 24098281,
    24155412, 24212623, 24269912, 24327281, 24384729, 24442255, 24499861, 24557546,
    24615310, 24673153, 24731076, 24789077, 24847158, 24905319, 24963558, 25021877,
    25080275, 25138753, 25197310, 25255947, 25314663, 25373459, 25432335, 25491290>>

LinearWide(v) == IF v <= 255 THEN Linear(v) ELSE GammaOver[v - 255]

\* the gamma encoding of rgbFromXy, as floor(255 * e) where e is 12.92 * v up to
\* 0.0031308 and 1.055 * v^(1/2.4) - 0.055 above (the inverse of the curve
\* tabulated in GammaTable); a negative v is clamped to 0
RECURSIVE EncodeIn(_, _, _)
\* the largest e in lo..hi with LinearWide(e) <= v, given LinearWide(lo) <= v
EncodeIn(v, lo, hi) ==
    IF lo = hi THEN lo
    ELSE LET mid == (lo + hi + 1) \div 2
         IN IF LinearWide(mid) <= v THEN EncodeIn(v, mid, hi)
            ELSE EncodeIn(v, lo, mid - 1)

Encode(v) == IF v < 0 THEN 0 ELSE EncodeIn(v, 0, 255 + Len(GammaOver))

\* (a * n) / d for 0 <= a, 0 <= n <= Unit, 0 < d <= Unit, without leaving 32 bits
MulDiv(a, n, d) == (a \div d) * n + ((a % d) * n) \div d

\* (a * k) / Fine for 0 <= a and a coefficient 0 <= k < 2 * Fine
MulCoef(a, k) ==
    LET ah == a \div 1000
        al == a % 1000
        kh == k \div 1000
        kl == k % 1000
    IN ah * kh + (ah * kl + al * kh + (al * kl) \div 1000) \div 1000

Max3(a, b, c) ==
    LET m == IF b > a THEN b ELSE a
    IN IF c > m THEN c ELSE m

\* the marker of a channel computed from a NaN
NaNColor == <<NaN, NaN, NaN>>

\* the one element of a singleton set
Only(S) == CHOOSE e \in S : TRUE

\* rgbFromXy, the linear light of the three channels for the point s
rgbLinear(l, s) ==
    LET w == Unit - s[1] - s[2]
        cx == MulDiv(l, s[1], s[2])
        cz == IF w < 0 THEN 0 - MulDiv(l, 0 - w, s[2]) ELSE MulDiv(l, w, s[2])
        zr == IF cz < 0 THEN 0 - MulCoef(0 - cz, 255038) ELSE MulCoef(cz, 255038)
        zg == IF cz < 0 THEN 0 - MulCoef(0 - cz, 36152) ELSE MulCoef(cz, 36152)
        zb == IF cz < 0 THEN 0 - MulCoef(0 - cz, 1011530) ELSE MulCoef(cz, 1011530)
    IN <<MulCoef(cx, 1656492) - MulCoef(l, 354851) - zr,
         MulCoef(l, 1655397) + zg - MulCoef(cx, 707196),
         MulCoef(cx, 51713) - MulCoef(l, 121364) + zb>>

\* rgbFromXy, the gamma encoding of the channels v, the division by the
\* largest when one exceeds 1, and the conversion to uint8
rgbEncoded(v) ==
    LET e == <<Encode(v[1]), Encode(v[2]), Encode(v[3])>>
    IN Only({IF m > 255 THEN <<(e[1] * 255) \div m, (e[2] * 255) \div m, (e[3] * 255) \div m>>
             ELSE e : m \in {Max3(e[1], e[2], e[3])}})

\* rgbFromXy with x, y scaled by Unit and l by Fine; a channel is kept as
\* floor(255 * e) before the normalisation, so a result may differ by one unit
\* from the float computation.  A NaN point or a zero sy gives NaNColor
rgbFromXy(c, l, x, y) ==
    LET s == IF reachable(c, x, y) THEN <<x, y>> ELSE closestPoint(c, x, y)
    IN IF IsNaN(s) \/ s[2] <= 0 THEN NaNColor
       ELSE Only({rgbEncoded(v) : v \in {rgbLinear(l, t) : t \in {s}}})

(***************************************************************************)
(* Hex strings are sequences of one-character strings.                     *)
(***************************************************************************)
HexChars == <<"0", "1", "2", "3", "4", "5", "6", "7", "8", "9",
              "a", "b", "c", "d", "e", "f", "A", "B", "C", "D", "E", "F">>

\* a digit reader that knows the upper-case letters only (the property C10
\* tells it from the one of strconv.ParseUint)
DigitValueUpper(ch) ==
    IF \E i \in 1..Len(HexChars) : HexChars[i] = ch /\ (i <= 10 \/ i > 16)
    THEN LET i == CHOOSE j \in 1..Len(HexChars) : HexChars[j] = ch
         IN IF i <= 16 THEN i - 1 ELSE i - 7
    ELSE -1

\* the value of one digit in strconv.ParseUint, or -1 when it is none in base 16
DigitValue(ch) ==
    IF \E i \in 1..Len(HexChars) : HexChars[i] = ch
    THEN LET i == CHOOSE j \in 1..Len(HexChars) : HexChars[j] = ch
         IN IF i <= 16 THEN i - 1 ELSE i - 7
    ELSE -1

\* strconv.ParseUint(s, 16, 16): the value, or -1 for a syntax error
ParseUint(s) ==
    IF Len(s) = 0 \/ \E i \in 1..Len(s) : DigitValue(s[i]) = -1 THEN -1
    ELSE LET RECURSIVE Val(_)
             Val(n) == IF n = 0 THEN 0 ELSE Val(n - 1) * 16 + DigitValue(s[n])
         IN Val(Len(s))

\* s[lo:hi] with Go's 0-based bounds
Slice(s, lo, hi) == SubSeq(s, lo + 1, hi)

HexResult(xy, err) == [xy |-> xy, err |-> err]

\* xyFromHex; the err is "nil", "format", or "panic" when a slice expression
\* runs past the end of the string
xyFromHex(c, s) ==
    LET i == IF s[1] = "#" THEN 1 ELSE 0
        r == ParseUint(Slice(s, i, i + 2))
        g == ParseUint(Slice(s, i + 2, i + 4))
        b == ParseUint(Slice(s, i + 4, i + 6))
    IN IF Len(s) < 6 \/ Len(s) > 7 \/ (Len(s) = 7 /\ s[1] # "#")
       THEN HexResult(<<0, 0>>, "format")
       ELSE IF r = -1 THEN HexResult(<<0, 0>>, "format")
       ELSE IF g = -1 THEN HexResult(<<0, 0>>, "format")
       ELSE IF i + 6 > Len(s) THEN HexResult(<<0, 0>>, "panic")
       ELSE IF b = -1 THEN HexResult(<<0, 0>>, "format")
       ELSE HexResult(xyFromRGB(c, r % 256, g % 256, b % 256), "nil")

(***************************************************************************)
(* The values the API calls of the model are made with.                    *)
(***************************************************************************)
Names == {"Desk"}
Alerts == {AlertBreathe}
Modes == {StartupResume}
Levels == {2}
Points == {<<3127, 3290>>}
Colors == {<<255, 0, 0>>}
HexArgs == {<<"#", "F", "F", "8", "0", "0", "0">>, <<"G", "G", "8", "0", "0", "0">>}
Switches == {TRUE}
\* durations handed to SetTransition, in units of 100 ms
Durations == {7}

\* the reply sequences a synchronization of record r with mask m can consume:
\* a second reply only when a second request can follow the first
Replies(r, m) ==
    LET two == IF r \in ControlLike THEN m >= maskName /\ m % maskName # 0
               ELSE And(m, maskName) # 0 /\ AndNot(m, maskName) # 0
    IN IF m = 0 THEN {<<g, g>> : g \in GetResponses}
       ELSE {rs \in PutResponses \X PutResponses :
               \/ two /\ request("PUT", <<>>, EmptyBody, rs[1]).err = "nil"
               \/ rs[2] = rs[1]}


(***************************************************************************)
(* The Bridge cache.  A map is nil or a set of records; a record carries   *)
(* its id, its display name and the number of the call that created it.    *)
(* Names are sequences of one-character strings.                           *)
(***************************************************************************)
MaxCalls == 2

\* ids the bridge device may list; those of LightKind report colour or dimming
\* capabilities and are decoded as Light, the others as Control
LightListIds == {"1", "2", "3"}
LightKind == {"1", "3"}
SensorListIds == {"5"}
GroupListIds == {"8"}

\* the "lights" and "sensors" lists of a group as the bridge device reports them
GroupLights == <<"1", "2", "3", "4">>
GroupSensors == <<"5", "6">>

\* the display names the bridge device reports
RemoteName(id) ==
    CASE id = "1" -> <<"D", "e", "n">>
      [] id = "3" -> <<"d", "E", "N">>
      [] id = "5" -> <<"D", "E", "N">>
      [] id = "8" -> <<"H", "a", "l">>
      [] OTHER -> <<"P", "l", "u", "g">>

NilMap == [nil |-> TRUE, recs |-> {}]
Made(recs) == [nil |-> FALSE, recs |-> recs]
Ids(m) == {r.id : r \in m.recs}

NoMembers == [lights |-> <<>>, controls |-> <<>>, sensors |-> <<>>]
Rec(id, n) == [id |-> id, name |-> RemoteName(id), gen |-> n, members |-> NoMembers,
               linked |-> {}]

EmptyCache == [lights |-> NilMap, controls |-> NilMap, sensors |-> NilMap, groups |-> NilMap]

\* b.lights == nil || b.controls == nil
NeedControls(c) == c.lights.nil \/ c.controls.nil

\* what a listing fetch may come back with: an error of request (no answer, or
\* an array with an error entry), a response of length zero (no body, or an
\* array without an error entry), the listing object, or the listing object
\* with one entry that cannot be decoded
ReplyKinds == {"failed", "empty", "listing", "badentry"}
Paths == {"/lights", "/sensors", "/groups"}

Got(c, err) == [c |-> c, err |-> err]

\* the outcomes of decoding the entries ids of a listing in map order: all of
\* them, or (bad entry) any of the others before the one that fails
Decodings(ids, rk) ==
    IF rk = "listing" THEN {[done |-> ids, err |-> "nil"]}
    ELSE {[done |-> s, err |-> "decode"] : s \in UNION {SUBSET (ids \ {b}) : b \in ids}}

\* Bridge.getControls: the outcomes for reply kind rk, made in call n
getControls(c, rk, rem, n) ==
    IF rk = "failed" THEN {Got(c, "request")}
    ELSE IF rk = "empty" THEN {Got(c, "nil")}
    ELSE IF rem.lights = {} THEN {Got(c, "unmarshal")}
    ELSE {Got([c EXCEPT !.lights = Made({Rec(i, n) : i \in d.done \cap LightKind}),
                        !.controls = Made({Rec(i, n) : i \in d.done \ LightKind})],
              d.err) : d \in Decodings(rem.lights, rk)}

\* Bridge.getSensors
getSensors(c, rk, rem, n) ==
    IF rk = "failed" THEN {Got(c, "request")}
    ELSE IF rk = "empty" THEN {Got(c, "nil")}
    ELSE IF rem.sensors = {} THEN {Got(c, "unmarshal")}
    ELSE {Got([c EXCEPT !.sensors = Made({Rec(i, n) : i \in d.done})], d.err) :
            d \in Decodings(rem.sensors, rk)}

InMap(m, i) == i \in Ids(m)

\* a linking that keeps the ids it does not find in the lights map as controls
LinkUnchecked(c) ==
    LET inL(i) == InMap(c.lights, i)
        notL(i) == ~InMap(c.lights, i)
        inS(i) == InMap(c.sensors, i)
    IN [lights |-> SelectSeq(GroupLights, inL),
        controls |-> SelectSeq(GroupLights, notL),
        sensors |-> SelectSeq(GroupSensors, inS)]

\* Group.unmarshal, the linking of "lights" and "sensors" against the maps of b
Link(c) ==
    LET inL(i) == InMap(c.lights, i)
        inC(i) == ~InMap(c.lights, i) /\ InMap(c.controls, i)
        inS(i) == InMap(c.sensors, i)
        \* len(v) > 4 for the raw JSON of a list of one-character ids
        long(l) == 1 + 4 * Len(l) > 4
    IN [lights |-> IF long(GroupLights) THEN SelectSeq(GroupLights, inL) ELSE <<>>,
        controls |-> IF long(GroupLights) THEN SelectSeq(GroupLights, inC) ELSE <<>>,
        sensors |-> IF long(GroupSensors) THEN SelectSeq(GroupSensors, inS) ELSE <<>>]

\* the records the pointers appended by Group.unmarshal point to: the record
\* found under the id in the map of b at that moment (id and creating call)
Linked(c) ==
    LET m == Link(c)
        of(kind, ids) == {[kind |-> kind, id |-> r.id, gen |-> r.gen] :
                            r \in {x \in c[kind].recs : x.id \in {ids[k] : k \in DOMAIN ids}}}
    IN of("lights", m.lights) \cup of("controls", m.controls) \cup of("sensors", m.sensors)

GroupRec(c, id, n) == [Rec(id, n) EXCEPT !.members = Link(c), !.linked = Linked(c)]

\* an outcome of a call so far: the cache, the fetches made, the error
Start(c) == [c |-> c, log |-> <<>>, err |-> "nil"]

\* one more fetch after outcome o, unless o failed or the fetch is not needed
ThenFetch(o, need, path, outs) ==
    IF o.err # "nil" \/ ~need THEN {o}
    ELSE {[c |-> x.c, log |-> Append(o.log, [path |-> path, err |-> x.err]), err |-> x.err] :
            x \in outs}

\* the "/groups" fetch and decoding of Bridge.getGroups
getGroupsTail(c, rk, rem, n) ==
    IF rk = "failed" THEN {Got(c, "request")}
    ELSE IF rk = "empty" THEN {Got(c, "nil")}
    ELSE IF rem.groups = {} THEN {Got(c, "unmarshal")}
    ELSE {Got([c EXCEPT !.groups = Made({GroupRec(c, i, n) : i \in d.done})], d.err) :
            d \in Decodings(rem.groups, rk)}

\* getGroups with the sensors fetched before the lights
getGroupsSensorsFirst(o, rep, rem, n) ==
    LET A == ThenFetch(o, o.c.sensors.nil, "/sensors",
                       getSensors(o.c, rep["/sensors"], rem, n))
        B == UNION {ThenFetch(a, NeedControls(a.c), "/lights",
                              getControls(a.c, rep["/lights"], rem, n)) : a \in A}
    IN UNION {ThenFetch(b, TRUE, "/groups",
                        getGroupsTail(b.c, rep["/groups"], rem, n)) : b \in B}

\* Bridge.getGroups after outcome o; rep gives the reply kind of each path
getGroups(o, rep, rem, n) ==
    LET A == ThenFetch(o, NeedControls(o.c), "/lights",
                       getControls(o.c, rep["/lights"], rem, n))
        B == UNION {ThenFetch(a, a.c.sensors.nil, "/sensors",
                              getSensors(a.c, rep["/sensors"], rem, n)) : a \in A}
    IN UNION {ThenFetch(b, TRUE, "/groups",
                        getGroupsTail(b.c, rep["/groups"], rem, n)) : b \in B}

\* Bridge.UpdateContext
BridgeUpdateContext(c, rep, rem, n) ==
    LET c0 == [c EXCEPT !.lights = NilMap, !.sensors = NilMap, !.controls = NilMap]
        A == ThenFetch(Start(c0), TRUE, "/lights", getControls(c0, rep["/lights"], rem, n))
        B == UNION {ThenFetch(a, TRUE, "/sensors",
                              getSensors(a.c, rep["/sensors"], rem, n)) : a \in A}
    IN UNION {getGroups(b, rep, rem, n) : b \in B}

\* the lazy population an accessor of a kind starts with
Populate(kind, c, rep, rem, n) ==
    IF kind = "groups"
    THEN IF c.groups.nil THEN getGroups(Start(c), rep, rem, n) ELSE {Start(c)}
    ELSE IF kind = "sensors"
    THEN ThenFetch(Start(c), c.sensors.nil, "/sensors",
                   getSensors(c, rep["/sensors"], rem, n))
    ELSE ThenFetch(Start(c), NeedControls(c), "/lights",
                   getControls(c, rep["/lights"], rem, n))

\* unicode.ToLower on the letters in use; strings.EqualFold
FoldChar(ch) ==
    CASE ch = "D" -> "d" [] ch = "E" -> "e" [] ch = "N" -> "n" [] ch = "H" -> "h"
      [] ch = "A" -> "a" [] ch = "L" -> "l" [] ch = "P" -> "p" [] ch = "U" -> "u"
      [] ch = "G" -> "g" [] OTHER -> ch

\* a comparison that tells the letter cases apart
EqualExact(a, b) == a = b

EqualFold(a, b) ==
    /\ Len(a) = Len(b)
    /\ \A i \in 1..Len(a) : FoldChar(a[i]) = FoldChar(b[i])

\* the map of a kind
MapOf(c, kind) ==
    CASE kind = "lights" -> c.lights
      [] kind = "controls" -> c.controls
      [] kind = "sensors" -> c.sensors
      [] OTHER -> c.groups

\* the kind whose listing an accessor of kind populates
Listing(kind) == IF kind = "controls" THEN "lights" ELSE kind
PathOf(kind) == IF kind = "groups" THEN "/groups"
                ELSE IF kind = "sensors" THEN "/sensors" ELSE "/lights"

\* the kinds whose listing fetch in log was answered with a JSON object
ListedBy(log, rep) ==
    {k \in {"lights", "sensors", "groups"} :
        \E i \in 1..Len(log) :
           log[i].path = PathOf(k) /\ rep[PathOf(k)] \in {"listing", "badentry"}}

NameArgs == {<<"d", "e", "n">>, <<"H", "A", "L">>}
NoName == <<>>
IdArgs == {"1", "2"}

BridgeIdle ==
    /\ remote = [lights |-> {}, sensors |-> {}, groups |-> {}]
    /\ cache = EmptyCache
    /\ calls = 0
    /\ lastUpdate = 0
    /\ listed = {}
    /\ bop = [name |-> "none", kind |-> "none", id |-> "", n |-> NoName]
    /\ bfetch = <<>>
    /\ bret = "nil"
    /\ bout = {}
    /\ bpre = [nil |-> {}, listed |-> {}]


(***************************************************************************)
(* The threads that call the Bridge, the lookups of sensor values and the  *)
(* gamut questions, before any of them has happened.                       *)
(***************************************************************************)
Threads == {"A", "B"}
NoAccess == [by |-> "none", kind |-> "none", held |-> "none"]

LockIdle ==
    /\ lk = [w |-> "none", r |-> {}]
    /\ tpc = [t \in Threads |-> "idle"]
    /\ tcall = [t \in Threads |-> "none"]
    /\ tdone = [t \in Threads |-> 0]
    /\ lmap = "nil"
    /\ acc = NoAccess

NoGet == [fn |-> "none", n |-> <<>>, val |-> "", err |-> "nil",
          pre |-> [values |-> <<>>, mask |-> 0, reqs |-> 0]]

ValIdle ==
    /\ svalues = <<>>
    /\ smask = 0
    /\ sreqs = 0
    /\ sget = NoGet

NoProbe == [asked |-> FALSE, p |-> <<0, 0>>, inside |-> FALSE, near |-> <<0, 0>>]

GamIdle ==
    /\ tri = defaultGamut
    /\ probe = NoProbe

NoTrip == [asked |-> FALSE, rgb |-> <<0, 0, 0>>, l |-> 0, xy |-> <<0, 0>>,
           back |-> <<0, 0, 0>>]

NoAck == [done |-> FALSE, rec |-> "L1", resp |-> NetErr, first |-> TRUE, m0 |-> 0,
          mask |-> 0, ret |-> "nil", reqs |-> <<>>]

NoDecode == [done |-> FALSE, listing |-> {}, shared |-> FALSE, order |-> <<>>,
             lights |-> {}, controls |-> {}, err |-> "nil"]

NoFetch == [done |-> FALSE, resp |-> NetErr, before |-> <<<<>>, <<>>, <<>>>>,
            after |-> <<<<>>, <<>>, <<>>>>, ret |-> "nil", reqs |-> <<>>]

NoPayload == [keys |-> {}, name |-> "lamp", on |-> FALSE, bri |-> 0]

NoRace == [pc |-> [t \in Threads |-> "idle"], manual |-> FALSE, mask |-> 0,
           name |-> "lamp", on |-> FALSE, bri |-> 0,
           body |-> [t \in Threads |-> NoPayload], sent |-> {},
           ret |-> [t \in Threads |-> "nil"]]

NoTransition == [done |-> FALSE, t |-> 0, stored |-> 0, got |-> 0, sent |-> 0]

NoClass == [done |-> FALSE, class |-> 0, prev |-> 0, name |-> <<>>, back |-> 0, err |-> "nil"]

HarnessIdle ==
    /\ rt = NoTrip
    /\ ack = NoAck
    /\ dec = NoDecode
    /\ gf = NoFetch
    /\ rc = NoRace
    /\ tr = NoTransition
    /\ gc = NoClass

(***************************************************************************)
(* Initial state: the records as the population pass decoded them.  The    *)
(* Light was decoded with or without "colormode" and "colorgamut".         *)
(***************************************************************************)
RecStart(f, color, g) ==
    /\ focus = f
    /\ snap = [r \in Records |-> InitSnap(IF r \in LightIds THEN color ELSE FALSE)]
    /\ gamut = [r \in Records |-> IF r \in LightIds THEN g ELSE NilGamut]
    /\ mask = [r \in Records |-> 0]
    /\ manual = [r \in Records |-> FALSE]
    /\ edits = 0
    /\ op = [name |-> "none", rec |-> "none", manual |-> FALSE]
    /\ reqs = <<>>
    /\ ret = "nil"
    /\ mask0 = 0

RecInit ==
    \E f \in Records :
       \E color \in (IF f \in LightIds THEN BOOLEAN ELSE {FALSE}) :
          \E g \in (IF color THEN {NilGamut, "device"} ELSE {NilGamut}) :
             RecStart(f, color, g)

HexIdle ==
    /\ hexIn = <<>>
    /\ hexOut = HexResult(<<0, 0>>, "none")

Init == RecInit /\ HexIdle /\ BridgeIdle /\ LockIdle /\ ValIdle /\ GamIdle
    /\ HarnessIdle

(***************************************************************************)
(* The end of an API call on record r: o is the outcome of its             *)
(* synchronization (or of staging alone), g the gamut pointer it leaves,   *)
(* m0 the mask with which the synchronization started.                     *)
(***************************************************************************)
\* the end of a call if the records shared one dirty mask (the property C28
\* tells the two apart)
FinishSharedMask(r, name, o, g, m0) ==
    /\ snap' = [snap EXCEPT ![r] = o.snap]
    /\ mask' = [x \in Records |-> o.mask]
    /\ gamut' = [gamut EXCEPT ![r] = g]
    /\ op' = [name |-> name, rec |-> r, manual |-> manual[r]]
    /\ reqs' = o.reqs
    /\ ret' = o.ret
    /\ mask0' = m0
    /\ UNCHANGED <<manual, focus, hexVars, bridgeVars, lockVars, valVars, gamVars, harnessVars>>

Finish(r, name, o, g, m0) ==
    /\ snap' = [snap EXCEPT ![r] = o.snap]
    /\ mask' = [mask EXCEPT ![r] = o.mask]
    /\ gamut' = [gamut EXCEPT ![r] = g]
    /\ op' = [name |-> name, rec |-> r, manual |-> manual[r]]
    /\ reqs' = o.reqs
    /\ ret' = o.ret
    /\ mask0' = m0
    /\ UNCHANGED <<manual, focus, hexVars, bridgeVars, lockVars, valVars, gamVars, harnessVars>>

\* a call that may write the snapshot (a mutator, a re-fetching Update) is counted
Edit ==
    /\ edits < MaxEdits
    /\ edits' = edits + 1

\* Stage without the Manual test: the synchronization always runs (the
\* property C3 tells the two apart)
StageEager(r, name, s2, bit, g) ==
    /\ Edit
    /\ LET m1 == Or(mask[r], bit)
       IN \E rs \in Replies(r, m1) :
             Finish(r, name, UpdateContext(r, s2, m1, rs), g, m1)

\* the tail every mutator shares: set the bit, return if Manual, else synchronize
Stage(r, name, s2, bit, g) ==
    /\ Edit
    /\ LET m1 == Or(mask[r], bit)
       IN IF manual[r]
          THEN Finish(r, name, Out(s2, m1, <<>>, "nil"), g, m1)
          ELSE \E rs \in Replies(r, m1) :
                  Finish(r, name, UpdateContext(r, s2, m1, rs), g, m1)

\* a call that returns err before staging anything
Reject(r, name, err, g) ==
    /\ Edit
    /\ Finish(r, name, Out(snap[r], mask[r], <<>>, err), g, mask[r])

\* the caller assigns the public Manual field
SetManual(r, b) ==
    /\ manual[r] # b
    /\ manual' = [manual EXCEPT ![r] = b]
    /\ UNCHANGED <<snap, mask, gamut, focus, edits, op, reqs, ret, mask0, hexVars, bridgeVars,
                   lockVars, valVars, gamVars, harnessVars>>

\* Control.Update / Sensor.Update / Group.Update
Update(r) ==
    /\ IF mask[r] = 0 THEN Edit ELSE UNCHANGED edits
    /\ \E rs \in Replies(r, mask[r]) :
          Finish(r, "Update", UpdateContext(r, snap[r], mask[r], rs), gamut[r], mask[r])

(***************************************************************************)
(* Control (and the Light that embeds it).                                 *)
(***************************************************************************)
SetOn(r, v) == Stage(r, "SetOn", [snap[r] EXCEPT !.on = v], maskOn, gamut[r])

SetAlert(r, a) == Stage(r, "SetAlert", [snap[r] EXCEPT !.alert = a], maskAlert, gamut[r])

SetName(r, n) == Stage(r, "SetName", [snap[r] EXCEPT !.name = n], maskName, gamut[r])

SetPowerOn(r, s) ==
    Stage(r, "SetPowerOn",
          [snap[r] EXCEPT !.startupMode = s, !.startupSettings = FALSE],
          maskStartup, gamut[r])

(***************************************************************************)
(* Light.                                                                  *)
(***************************************************************************)
SetXY(r, p) ==
    IF ~snap[r].colormode THEN Reject(r, "SetXY", "ErrNoColor", gamut[r])
    ELSE Stage(r, "SetXY", [snap[r] EXCEPT !.xy = p], maskXY, gamut[r])

SetHue(r, h) ==
    IF ~snap[r].colormode THEN Reject(r, "SetHue", "ErrNoColor", gamut[r])
    ELSE Stage(r, "SetHue", [snap[r] EXCEPT !.hue = h], maskHue, gamut[r])

SetSaturation(r, v) ==
    IF ~snap[r].colormode THEN Reject(r, "SetSaturation", "ErrNoColor", gamut[r])
    ELSE Stage(r, "SetSaturation", [snap[r] EXCEPT !.sat = v], maskSaturation, gamut[r])

SetTemperature(r, t) ==
    IF ~snap[r].colormode THEN Reject(r, "SetTemperature", "ErrNoColor", gamut[r])
    ELSE Stage(r, "SetTemperature", [snap[r] EXCEPT !.ct = t], maskTemperature, gamut[r])

\* Light.SetHex with the default gamut assigned before the colour test (the
\* property C8 tells the two apart)
SetHexGamutFirst(r, h) ==
    LET g == IF gamut[r] = NilGamut THEN "default" ELSE gamut[r]
        c == xyFromHex(Triangle(g), h)
    IN IF ~snap[r].colormode THEN Reject(r, "SetHex", "ErrNoColor", g)
       ELSE IF c.err # "nil" THEN Reject(r, "SetHex", c.err, g)
       ELSE Stage(r, "SetHex", [snap[r] EXCEPT !.xy = c.xy], maskXY, g)

SetHex(r, h) ==
    LET g == IF gamut[r] = NilGamut THEN "default" ELSE gamut[r]
        c == xyFromHex(Triangle(g), h)
    IN IF ~snap[r].colormode THEN Reject(r, "SetHex", "ErrNoColor", gamut[r])
       ELSE IF c.err # "nil" THEN Reject(r, "SetHex", c.err, g)
       ELSE Stage(r, "SetHex", [snap[r] EXCEPT !.xy = c.xy], maskXY, g)

SetRGB(r, c) ==
    LET g == IF gamut[r] = NilGamut THEN "default" ELSE gamut[r]
    IN IF ~snap[r].colormode THEN Reject(r, "SetRGB", "ErrNoColor", gamut[r])
       ELSE Stage(r, "SetRGB",
                  [snap[r] EXCEPT !.xy = xyFromRGB(Triangle(g), c[1], c[2], c[3])],
                  maskXY, g)

SetEffect(r, e) == Stage(r, "SetEffect", [snap[r] EXCEPT !.effect = e], maskEffect, gamut[r])

SetBrightness(r, b) ==
    Stage(r, "SetBrightness", [snap[r] EXCEPT !.bri = b], maskBrightness, gamut[r])

SetCustomPowerOn(r) ==
    Stage(r, "SetCustomPowerOn",
          [snap[r] EXCEPT !.startupMode = startupCustom, !.startupSettings = TRUE],
          maskStartup, gamut[r])

\* Light.SetTransition: stores uint16(t / 100ms); no bit, no request
SetTransition(r, d) ==
    /\ Edit
    /\ Finish(r, "SetTransition",
              Out([snap[r] EXCEPT !.transition = d % 65536], mask[r], <<>>, "nil"),
              gamut[r], mask[r])

(***************************************************************************)
(* Sensor and Group.                                                       *)
(***************************************************************************)
SensorSetOn(r, e) == Stage(r, "SetOn", [snap[r] EXCEPT !.on = e], maskOn, gamut[r])

SensorSetLed(r, e) ==
    Stage(r, "SetLed", [snap[r] EXCEPT !.led = IF e THEN "true" ELSE "false"],
          maskLed, gamut[r])

SensorSetAlert(r, a) ==
    Stage(r, "SetAlert", [snap[r] EXCEPT !.alert = a], maskAlert, gamut[r])

SensorSetName(r, n) ==
    Stage(r, "SetName", [snap[r] EXCEPT !.name = n], maskName, gamut[r])

GroupSetName(r, n) ==
    Stage(r, "SetName", [snap[r] EXCEPT !.name = n], maskName, gamut[r])

Next ==
    \/ \E r \in Records \cap {focus}, b \in BOOLEAN : SetManual(r, b)
    \/ \E r \in Records \cap {focus} : Update(r)
    \/ \E r \in ControlLike \cap {focus}, v \in Switches : SetOn(r, v)
    \/ \E r \in ControlLike \cap {focus}, a \in Alerts : SetAlert(r, a)
    \/ \E r \in ControlLike \cap {focus}, n \in Names : SetName(r, n)
    \/ \E r \in ControlLike \cap {focus}, s \in Modes : SetPowerOn(r, s)
    \/ \E r \in LightIds \cap {focus}, p \in Points : SetXY(r, p)
    \/ \E r \in LightIds \cap {focus}, h \in Levels : SetHue(r, h)
    \/ \E r \in LightIds \cap {focus}, v \in Levels : SetSaturation(r, v)
    \/ \E r \in LightIds \cap {focus}, t \in Levels : SetTemperature(r, t)
    \/ \E r \in LightIds \cap {focus}, h \in HexArgs : SetHex(r, h)
    \/ \E r \in LightIds \cap {focus}, c \in Colors : SetRGB(r, c)
    \/ \E r \in LightIds \cap {focus}, e \in Switches : SetEffect(r, e)
    \/ \E r \in LightIds \cap {focus}, b \in Levels : SetBrightness(r, b)
    \/ \E r \in LightIds \cap {focus} : SetCustomPowerOn(r)
    \/ \E r \in LightIds \cap {focus}, d \in Durations : SetTransition(r, d)
    \/ \E r \in SensorIds \cap {focus}, e \in Switches : SensorSetOn(r, e)
    \/ \E r \in SensorIds \cap {focus}, e \in Switches : SensorSetLed(r, e)
    \/ \E r \in SensorIds \cap {focus}, a \in Alerts : SensorSetAlert(r, a)
    \/ \E r \in SensorIds \cap {focus}, n \in Names : SensorSetName(r, n)
    \/ \E r \in GroupIds \cap {focus}, n \in Names : GroupSetName(r, n)

Spec == Init /\ [][Next]_vars

(***************************************************************************)
(* The conversion harness: LightState.SetHex hands a string to xyFromHex   *)
(* with the default gamut.  Each step converts the previous string         *)
(* extended by one character, so that every string of up to MaxHexLen      *)
(* characters of HexAlphabet is converted.                                 *)
(***************************************************************************)
HexAlphabet == {"#", "0", "F", "f", "G"}

Convert(ch) ==
    /\ Len(hexIn) < MaxHexLen
    /\ hexIn' = Append(hexIn, ch)
    /\ hexOut' = xyFromHex(defaultGamut, hexIn')
    /\ UNCHANGED <<recVars, bridgeVars, lockVars, valVars, gamVars, harnessVars>>

HexInit ==
    RecStart("L1", FALSE, NilGamut) /\ HexIdle /\ BridgeIdle /\ LockIdle /\ ValIdle /\ GamIdle
    /\ HarnessIdle

HexNext == \E ch \in HexAlphabet : Convert(ch)

SpecHex == HexInit /\ [][HexNext]_vars

(***************************************************************************)
(* Bridge API calls.  Each call is one step: the lazy population (or the   *)
(* refresh) and the read that follows it.                                  *)
(***************************************************************************)
\* the bridge object right after Connect: nothing cached, any set of devices
BridgeInit ==
    /\ remote \in [lights : {{}, LightListIds}, sensors : SUBSET SensorListIds,
                   groups : SUBSET GroupListIds]
    /\ cache = EmptyCache
    /\ calls = 0
    /\ lastUpdate = 0
    /\ listed = {}
    /\ bop = [name |-> "none", kind |-> "none", id |-> "", n |-> NoName]
    /\ bfetch = <<>>
    /\ bret = "nil"
    /\ bout = {}
    /\ bpre = [nil |-> {}, listed |-> {}]

\* the maps that are nil
NilKinds(c) == {k \in {"lights", "controls", "sensors", "groups"} : MapOf(c, k).nil}

\* the replies to the listing fetches a call may make: one reply kind for each
\* path it may fetch (the others are never asked for)
Stops == {"failed", "badentry"}
RepliesTo(paths) ==
    {rp \in [Paths -> ReplyKinds] :
        /\ \A p \in Paths \ paths : rp[p] = "listing"
        /\ rp["/lights"] \in Stops => rp["/sensors"] = "listing" /\ rp["/groups"] = "listing"
        /\ rp["/sensors"] \in Stops => rp["/groups"] = "listing"}

\* the paths the population for an accessor of a kind may fetch
MayFetch(kind, c) ==
    IF kind = "groups"
    THEN IF c.groups.nil
         THEN {"/groups"} \cup (IF NeedControls(c) THEN {"/lights"} ELSE {})
                         \cup (IF c.sensors.nil THEN {"/sensors"} ELSE {})
         ELSE {}
    ELSE IF kind = "sensors" THEN (IF c.sensors.nil THEN {"/sensors"} ELSE {})
    ELSE IF NeedControls(c) THEN {"/lights"} ELSE {}

\* the end of a Bridge call
BridgeDone(name, kind, id, nm, o, out, err, seen) ==
    /\ cache' = o.c
    /\ calls' = calls + 1
    /\ bop' = [name |-> name, kind |-> kind, id |-> id, n |-> nm]
    /\ bfetch' = o.log
    /\ bret' = err
    /\ bout' = out
    /\ bpre' = [nil |-> NilKinds(cache), listed |-> listed]
    /\ listed' = seen
    /\ UNCHANGED <<remote, recVars, hexVars, lockVars, valVars, gamVars, harnessVars>>

\* Bridge.Update
BridgeUpdate ==
    /\ calls < MaxCalls
    /\ \E rep \in RepliesTo(Paths) :
          \E o \in BridgeUpdateContext(cache, rep, remote, calls + 1) :
             /\ BridgeDone("Update", "all", "", NoName, o, {}, o.err, ListedBy(o.log, rep))
             /\ lastUpdate' = calls + 1

\* b.lights[s]; the loop with strings.EqualFold over a map (in any order);
\* the map itself
ById(m, id) == {{r \in m.recs : r.id = id}}
ByName(m, nm) ==
    LET hit == {r \in m.recs : EqualFold(nm, r.name)}
    IN IF hit = {} THEN {{}} ELSE {{r} : r \in hit}
Whole(m) == {m.recs}

\* an accessor of a kind: populate if the map is nil, then read by id, by name
\* or as a whole; withErr says whether the call returns the error
Accessor(name, kind, id, nm, withErr) ==
    /\ calls < MaxCalls
    /\ \E rep \in RepliesTo(MayFetch(kind, cache)) :
          \E o \in Populate(kind, cache, rep, remote, calls + 1) :
             \E out \in (IF id # "" THEN ById(MapOf(o.c, kind), id)
                         ELSE IF nm # NoName THEN ByName(MapOf(o.c, kind), nm)
                         ELSE Whole(MapOf(o.c, kind))) :
                /\ BridgeDone(name, kind, id, nm, o, out,
                              IF withErr THEN o.err ELSE "nil",
                              listed \cup ListedBy(o.log, rep))
                /\ UNCHANGED lastUpdate

BridgeLight(id) == Accessor("Light", "lights", id, NoName, FALSE)
BridgeControl(id) == Accessor("Control", "controls", id, NoName, FALSE)
BridgeSensor(id) == Accessor("Sensor", "sensors", id, NoName, FALSE)
BridgeGroup(id) == Accessor("Group", "groups", id, NoName, FALSE)

LightByName(nm) == Accessor("LightByName", "lights", "", nm, FALSE)
SensorByName(nm) == Accessor("SensorByName", "sensors", "", nm, FALSE)
GroupByName(nm) == Accessor("GroupByName", "groups", "", nm, FALSE)

Lights == Accessor("Lights", "lights", "", NoName, TRUE)
Controls == Accessor("Controls", "controls", "", NoName, TRUE)
Sensors == Accessor("Sensors", "sensors", "", NoName, TRUE)
Groups == Accessor("Groups", "groups", "", NoName, TRUE)

\* LightCount, ControlCount, SensorCount: len of the map (the records counted)
LightCount == Accessor("LightCount", "lights", "", NoName, FALSE)
ControlCount == Accessor("ControlCount", "controls", "", NoName, FALSE)
SensorCount == Accessor("SensorCount", "sensors", "", NoName, FALSE)

\* SetName on a cached record with Manual set: the name changes in place
CachedSetName(kind, id, nm) ==
    /\ calls < MaxCalls
    /\ \E r \in MapOf(cache, kind).recs :
          /\ r.id = id
          /\ r.name # nm
          /\ LET recs == (MapOf(cache, kind).recs \ {r}) \cup {[r EXCEPT !.name = nm]}
                 c == CASE kind = "lights" -> [cache EXCEPT !.lights = Made(recs)]
                        [] kind = "sensors" -> [cache EXCEPT !.sensors = Made(recs)]
                        [] OTHER -> [cache EXCEPT !.groups = Made(recs)]
             IN BridgeDone("SetName", kind, id, nm, Start(c), {}, "nil", listed)
    /\ UNCHANGED lastUpdate

BridgeNext ==
    \/ BridgeUpdate
    \/ \E id \in IdArgs : BridgeLight(id)
    \/ \E id \in IdArgs : BridgeControl(id)
    \/ \E id \in SensorListIds : BridgeSensor(id)
    \/ \E id \in GroupListIds : BridgeGroup(id)
    \/ \E nm \in NameArgs : LightByName(nm)
    \/ \E nm \in NameArgs : SensorByName(nm)
    \/ \E nm \in NameArgs : GroupByName(nm)
    \/ Lights
    \/ Controls
    \/ Sensors
    \/ Groups
    \/ LightCount
    \/ ControlCount
    \/ SensorCount
    \/ \E k \in {"lights", "sensors", "groups"} :
          \E id \in LightListIds \cup SensorListIds \cup GroupListIds :
             CachedSetName(k, id, <<"d", "e", "n">>)
InitBridge ==
    RecStart("L1", FALSE, NilGamut) /\ HexIdle /\ BridgeInit /\ LockIdle /\ ValIdle /\ GamIdle
    /\ HarnessIdle

SpecBridge == InitBridge /\ [][BridgeNext]_vars


(***************************************************************************)
(* Vocabulary of the properties.                                           *)
(***************************************************************************)
IdentityBits == {maskName, maskStartup}
StateBits == AllBits \ IdentityBits

\* the mask bit a mutator stages
BitOf(name) ==
    CASE name = "SetOn" -> maskOn
      [] name = "SetAlert" -> maskAlert
      [] name = "SetName" -> maskName
      [] name \in {"SetPowerOn", "SetCustomPowerOn"} -> maskStartup
      [] name \in {"SetXY", "SetHex", "SetRGB"} -> maskXY
      [] name = "SetHue" -> maskHue
      [] name = "SetSaturation" -> maskSaturation
      [] name = "SetTemperature" -> maskTemperature
      [] name = "SetEffect" -> maskEffect
      [] name = "SetBrightness" -> maskBrightness
      [] OTHER -> maskLed

\* the JSON key of a state-class bit in the payload of the record's sub-path
KeyOf(b) ==
    CASE b = maskOn -> "on"
      [] b = maskXY -> "xy"
      [] b = maskHue -> "hue"
      [] b = maskAlert -> "alert"
      [] b = maskEffect -> "effect"
      [] b = maskBrightness -> "bri"
      [] b = maskSaturation -> "sat"
      [] b = maskTemperature -> "ct"
      [] OTHER -> "ledindication"

Mutators == {"SetOn", "SetAlert", "SetName", "SetPowerOn", "SetCustomPowerOn", "SetXY",
             "SetHex", "SetRGB", "SetHue", "SetSaturation", "SetTemperature",
             "SetEffect", "SetBrightness", "SetLed"}
ColorSetters == {"SetXY", "SetRGB", "SetHex", "SetHue", "SetSaturation", "SetTemperature"}

\* the kind-specific sub-path
Sub(r) == IF r \in SensorIds THEN "/config"
          ELSE IF r \in GroupIds THEN "/action" ELSE "/state"

Called == op.name # "none"
\* the last call staged an edit (it was not refused before touching the record)
Accepted == op.name \in Mutators /\ ret \notin {"ErrNoColor", "format", "panic"}
\* the last call issued requests
Synced == Called /\ reqs # <<>>
\* the last call ran a synchronization: an Update, or a mutator of a record
\* that is not Manual
SyncRan == op.name = "Update" \/ (Accepted /\ ~op.manual)

IsPut(q, r, sub) == q.m = "PUT" /\ q.u = <<Root(r), r, sub>>
IsGet(q, r) == q.m = "GET" /\ q.u = <<Root(r), r, "">>
AllOk == \A i \in 1..Len(reqs) : reqs[i].err = "nil"

\* one synchronization sequence of a dirty record: at most one identity PUT
\* followed by at most one PUT to the sub-path, at least one of them, no GET
PushSequence(r) ==
    \/ Len(reqs) = 1 /\ (IsPut(reqs[1], r, "") \/ IsPut(reqs[1], r, Sub(r)))
    \/ Len(reqs) = 2 /\ IsPut(reqs[1], r, "") /\ IsPut(reqs[2], r, Sub(r))

(***************************************************************************)
(* C1.  The dirty mask of a record goes from non-empty to empty only in a  *)
(* call in which a PUT for that record succeeded; no failed, aborted or    *)
(* unsent push leaves the mask empty.                                      *)
(***************************************************************************)
C1_CleanOnlyAfterPut ==
    (Called /\ mask0 # 0 /\ mask[op.rec] = 0)
        => \E i \in 1..Len(reqs) :
              /\ reqs[i].m = "PUT"
              /\ reqs[i].u[2] = op.rec
              /\ reqs[i].err = "nil"

(***************************************************************************)
(* C2.  If the first request of a synchronization fails, the call returns  *)
(* that error and the mask is bit for bit the one the synchronization      *)
(* started with, whatever bits are set (display name and startup behavior  *)
(* included).                                                              *)
(***************************************************************************)
C2_FirstFailureKeepsMask ==
    (Synced /\ reqs[1].err # "nil")
        => (ret = reqs[1].err /\ mask[op.rec] = mask0)

ValueWritten(name, s, g) ==
    CASE name = "SetOn" -> s.on \in Switches
      [] name = "SetAlert" -> s.alert \in Alerts
      [] name = "SetName" -> s.name \in Names
      [] name = "SetPowerOn" -> s.startupMode \in Modes /\ ~s.startupSettings
      [] name = "SetCustomPowerOn" -> s.startupMode = startupCustom /\ s.startupSettings
      [] name = "SetXY" -> s.xy \in Points
      [] name = "SetHex" -> s.xy = xyFromRGB(Triangle(g), 255, 128, 0)
      [] name = "SetRGB" -> \E c \in Colors : s.xy = xyFromRGB(Triangle(g), c[1], c[2], c[3])
      [] name = "SetHue" -> s.hue \in Levels
      [] name = "SetSaturation" -> s.sat \in Levels
      [] name = "SetTemperature" -> s.ct \in Levels
      [] name = "SetEffect" -> s.effect \in Switches
      [] name = "SetBrightness" -> s.bri \in Levels
      [] OTHER -> s.led = "true"

C4_MutatorStagesThenSyncs ==
    Accepted =>
        /\ ValueWritten(op.name, snap[op.rec], gamut[op.rec])
        /\ And(mask0, BitOf(op.name)) # 0
        /\ ~op.manual =>
              /\ PushSequence(op.rec)
              /\ ret = reqs[Len(reqs)].err
              /\ \A i \in 1..(Len(reqs) - 1) : reqs[i].err = "nil"
              /\ ret = "nil" => mask[op.rec] = 0

C4_Witness ==
    /\ op.name = "SetName" /\ ~op.manual /\ focus \in SensorIds
    /\ Len(reqs) = 2 /\ ret = "nil"
    /\ mask[focus] = 0 /\ BitsOf(mask0) = {maskName, maskLed}
    /\ snap[focus].name = "Desk"

(***************************************************************************)
(* C5.  A synchronization of a Light/Control sends at most one PUT to      *)
(* /state, exactly one (and nothing else) when only state attributes are   *)
(* staged; its payload has a key for a state attribute iff the bit of the  *)
(* attribute is set, plus the transition time, which is always there, and  *)
(* every key carries the staged value.                                     *)
(***************************************************************************)
StateKeys(m) == {KeyOf(b) : b \in BitsOf(m) \cap StateBits}

StateValue(s, k) ==
    CASE k = "transitiontime" -> s.transition
      [] k = "on" -> s.on
      [] k = "xy" -> s.xy
      [] k = "hue" -> s.hue
      [] k = "alert" -> AlertString(s.alert)
      [] k = "effect" -> EffectString(s.effect)
      [] k = "bri" -> s.bri
      [] k = "sat" -> s.sat
      [] OTHER -> s.ct

StatePuts == {i \in 1..Len(reqs) : reqs[i].u[3] = "/state"}

IdentityOf(r, m) ==
    BitsOf(m) \cap (IF r \in ControlLike THEN IdentityBits ELSE {maskName})

IdentityKeys(r, m) ==
    {IF b = maskName THEN "name" ELSE "config" : b \in IdentityOf(r, m)}

Fetched(r, s, has) ==
    /\ s.name = "Remote"
    /\ r \in ControlLike =>
          /\ <<s.uuid, s.make, s.model, s.product>> = <<"u1", "t1", "m1", "p1">>
          /\ <<s.on, s.bri, s.hue, s.sat, s.ct, s.xy>> = <<TRUE, 1, 1, 1, 1, <<1, 1>>>>
          /\ s.alert = AlertSelect /\ s.effect /\ s.reachable
          /\ "config" \in has => s.startupMode = StartupResume
    /\ r \in SensorIds =>
          /\ <<s.uuid, s.make, s.model, s.product>> = <<"u1", "t1", "m1", "p1">>
          /\ <<s.values, s.updated>> = <<"v1", "t1">>
          /\ s.on /\ s.alert = AlertSelect /\ s.reachable /\ s.led = "true"
    /\ r \in GroupIds =>
          /\ s.gtype = "Zone" /\ s.class = "Kitchen"
          /\ s.lights = <<"L1">> /\ s.controls = <<"C1">> /\ s.sensors = <<"S1">>
          /\ <<s.on, s.bri>> = <<TRUE, 1>>
          /\ "state" \in has => (s.anyOn /\ s.allOn)

C8_NoColorChangesNothing ==
    [][(/\ edits' = edits + 1
        /\ op'.name \in ColorSetters
        /\ focus \in LightIds
        /\ ~snap[focus].colormode)
          => (/\ ret' = "ErrNoColor"
              /\ snap' = snap /\ mask' = mask /\ gamut' = gamut
              /\ reqs' = <<>>)]_vars

C8_Witness ==
    /\ op.name = "SetHex" /\ op.manual /\ ret = "ErrNoColor"
    /\ focus \in LightIds /\ ~snap[focus].colormode
    /\ mask[focus] = maskBrightness /\ gamut[focus] = NilGamut /\ reqs = <<>>

(***************************************************************************)
(* The strings the conversion is specified for, read off independently of  *)
(* the parser.                                                             *)
(***************************************************************************)
RefDigits == {"0", "1", "2", "3", "4", "5", "6", "7", "8", "9",
              "a", "b", "c", "d", "e", "f", "A", "B", "C", "D", "E", "F"}

RefValue(ch) ==
    CASE ch \in {"0"} -> 0 [] ch \in {"1"} -> 1 [] ch \in {"2"} -> 2 [] ch \in {"3"} -> 3
      [] ch \in {"4"} -> 4 [] ch \in {"5"} -> 5 [] ch \in {"6"} -> 6 [] ch \in {"7"} -> 7
      [] ch \in {"8"} -> 8 [] ch \in {"9"} -> 9
      [] ch \in {"a", "A"} -> 10 [] ch \in {"b", "B"} -> 11 [] ch \in {"c", "C"} -> 12
      [] ch \in {"d", "D"} -> 13 [] ch \in {"e", "E"} -> 14 [] OTHER -> 15

\* the string without its leading '#'
Digits(s) == IF Len(s) > 0 /\ s[1] = "#" THEN Tail(s) ELSE s

\* exactly six hexadecimal digits, optionally preceded by one '#'
WellFormed(s) ==
    /\ Len(Digits(s)) = 6
    /\ \A i \in 1..6 : Digits(s)[i] \in RefDigits

RefByte(s, n) == 16 * RefValue(Digits(s)[2 * n - 1]) + RefValue(Digits(s)[2 * n])

Converted == hexOut.err # "none"

(***************************************************************************)
(* C9.  Every string that is not six hexadecimal digits optionally         *)
(* preceded by one '#' is rejected by returning a format error, never by   *)
(* crashing (so only well-formed strings are accepted).                    *)
(***************************************************************************)
C9_MalformedIsFormatError ==
    (Converted /\ ~WellFormed(hexIn)) => hexOut.err = "format"

(***************************************************************************)
(* C10.  A well-formed hex colour converts to the chromaticity xyFromRGB   *)
(* gives, with the same gamut, for the three bytes its digits spell: the   *)
(* same with and without the '#' and in either letter case.                *)
(***************************************************************************)
C10_HexAgreesWithRGB ==
    (Converted /\ WellFormed(hexIn))
        => /\ hexOut.err = "nil"
           /\ hexOut.xy = xyFromRGB(defaultGamut, RefByte(hexIn, 1),
                                    RefByte(hexIn, 2), RefByte(hexIn, 3))

C10_Witness ==
    /\ hexIn = <<"#", "f", "F", "0", "0", "F", "f">>
    /\ hexOut.err = "nil"
    /\ hexOut.xy = xyFromRGB(defaultGamut, 255, 0, 255)
    /\ ~IsNaN(hexOut.xy)

(***************************************************************************)
(* Bridge cache properties (specification SpecBridge).                     *)
(***************************************************************************)
Kinds == {"lights", "controls", "sensors", "groups"}

\* the records the accessors of a kind return from cache c without fetching
Cached(c, kind) == MapOf(c, kind).recs

\* C11: once Bridge.Update has run, with or without an error, no record made
\* by an earlier population pass is left in any of the four maps, so none is
\* returned by Light/Control/Sensor/Group or listed by Lights/Controls/
\* Sensors/Groups
C11_UpdateDiscardsAll ==
    lastUpdate > 0 =>
        \A k \in Kinds : \A r \in Cached(cache, k) : r.gen >= lastUpdate

\* C12: after Bridge.Update returns without error the cache holds the listings
\* of the bridge device: the ids of lights and controls together are those of
\* /lights, the ids of sensors those of /sensors, the ids of groups those of
\* /groups
C12_UpdateReflectsListings ==
    bop.name = "Update" /\ bret = "nil" =>
        /\ Ids(cache.lights) \cup Ids(cache.controls) = remote.lights
        /\ Ids(cache.sensors) = remote.sensors
        /\ Ids(cache.groups) = remote.groups

\* the accessors of the cache, by id, by name, as a list and as a count
AccessorNames ==
    {"Light", "Control", "Sensor", "Group", "LightByName", "SensorByName", "GroupByName",
     "Lights", "Controls", "Sensors", "Groups", "LightCount", "ControlCount", "SensorCount"}

\* C13: once the bridge device has answered the listing of a kind since the
\* last refresh, with devices or with none, an accessor of that kind issues
\* no request
C13_PopulatedOnce ==
    bop.name \in AccessorNames /\ Listing(bop.kind) \in bpre.listed => bfetch = <<>>

\* the place of a listing path in the population order of the groups
Rank(path) == CASE path = "/lights" -> 1 [] path = "/sensors" -> 2 [] OTHER -> 3

\* the listing paths a population of the groups has to fetch, given the maps
\* that were nil before the call
Needed(nils) ==
    {"/groups"} \cup (IF "lights" \in nils \/ "controls" \in nils THEN {"/lights"} ELSE {})
                \cup (IF "sensors" \in nils THEN {"/sensors"} ELSE {})

Failed(log) == \E i \in 1..Len(log) : log[i].err # "nil"

Range(s) == {s[i] : i \in 1..Len(s)}
Times(s, x) == Cardinality({i \in 1..Len(s) : s[i] = x})

\* the groups decoded by the call that just ended
GroupsDecoded == {g \in cache.groups.recs : g.gen = calls /\ bop.name # "SetName"}

UpperLetters == <<"A", "D", "E", "G", "H", "L", "N", "P", "U">>
LowerLetters == <<"a", "d", "e", "g", "h", "l", "n", "p", "u">>
SameLetter(x, y) ==
    x = y \/ \E i \in 1..Len(UpperLetters) : {x, y} = {UpperLetters[i], LowerLetters[i]}
SameName(a, b) == Len(a) = Len(b) /\ \A i \in 1..Len(a) : SameLetter(a[i], b[i])

\* the names that differ from nm in letter case only
BothCases(ch) == {x \in Range(UpperLetters) \cup Range(LowerLetters) : SameLetter(x, ch)}
CaseVariants(nm) ==
    {v \in [1..Len(nm) -> UNION {BothCases(nm[i]) : i \in 1..Len(nm)}] : SameName(v, nm)}

ByNameCalls == {"LightByName", "SensorByName", "GroupByName"}

MaxThreadCalls == 2
LockCalls == {"Update", "Light", "Lights", "ControlByName"}

\* where an accessor goes to search the map: b.lock.RLock(), or b.lock.Lock()
\* in ControlByName
SearchLock(c) == IF c = "ControlByName" THEN "wlock" ELSE "rlock"

\* what thread t holds
Held(t) == IF lk.w = t THEN "write" ELSE IF t \in lk.r THEN "shared" ELSE "none"

\* thread t moves on to pc; the step touches nothing but the Bridge
At(t, pc) ==
    /\ tpc' = [tpc EXCEPT ![t] = pc]
    /\ UNCHANGED <<recVars, hexVars, bridgeVars, valVars, gamVars, harnessVars>>
Access(t, kind) == acc' = [by |-> t, kind |-> kind, held |-> Held(t)]

\* a thread enters a call
LockCall(t, c) ==
    /\ tpc[t] = "idle"
    /\ tdone[t] < MaxThreadCalls
    /\ tcall' = [tcall EXCEPT ![t] = c]
    /\ tdone' = [tdone EXCEPT ![t] = @ + 1]
    /\ At(t, IF c = "Update" THEN "lock" ELSE "check")
    /\ UNCHANGED <<lk, lmap, acc>>

\* if b.lights == nil || b.controls == nil: read while another thread may be
\* writing the field, in which case either value may be seen
LockCheck(t) ==
    /\ tpc[t] = "check"
    /\ Access(t, "read")
    /\ \E seen \in (IF lk.w \notin {"none", t} THEN {"nil", "made"} ELSE {lmap}) :
          At(t, IF seen = "nil" THEN "lock" ELSE SearchLock(tcall[t]))
    /\ UNCHANGED <<lk, tcall, tdone, lmap>>

\* b.lock.Lock()
LockLock(t) ==
    /\ tpc[t] = "lock"
    /\ lk.w = "none" /\ lk.r = {}
    /\ lk' = [lk EXCEPT !.w = t]
    /\ At(t, IF tcall[t] = "Update" THEN "reset" ELSE "fetch")
    /\ UNCHANGED <<tcall, tdone, lmap, acc>>

\* b.all, b.lights, b.sensors, b.controls = nil, nil, nil, nil
LockReset(t) ==
    /\ tpc[t] = "reset"
    /\ lmap' = "nil"
    /\ Access(t, "write")
    /\ At(t, "fetch")
    /\ UNCHANGED <<lk, tcall, tdone>>

\* b.getControls: the map is made, or left as it is when the fetch fails
LockFetch(t) ==
    /\ tpc[t] = "fetch"
    /\ lmap' \in {"made", lmap}
    /\ Access(t, "write")
    /\ At(t, "unlock")
    /\ UNCHANGED <<lk, tcall, tdone>>

\* b.lock.Unlock()
LockUnlock(t) ==
    /\ tpc[t] = "unlock"
    /\ lk' = [lk EXCEPT !.w = "none"]
    /\ At(t, CASE tcall[t] = "Update" -> "idle"
               [] tcall[t] = "Lights" -> "return"
               [] OTHER -> SearchLock(tcall[t]))
    /\ UNCHANGED <<tcall, tdone, lmap, acc>>

\* return b.lights, err (LightsContext after its population)
LockReturn(t) ==
    /\ tpc[t] = "return"
    /\ Access(t, "read")
    /\ At(t, "idle")
    /\ UNCHANGED <<lk, tcall, tdone, lmap>>

\* b.lock.Lock() of ControlByName, before the loop over b.controls
LockSearchLock(t) ==
    /\ tpc[t] = "wlock"
    /\ lk.w = "none" /\ lk.r = {}
    /\ lk' = [lk EXCEPT !.w = t]
    /\ At(t, "read")
    /\ UNCHANGED <<tcall, tdone, lmap, acc>>

\* b.lock.RLock()
LockRLock(t) ==
    /\ tpc[t] = "rlock"
    /\ lk.w = "none"
    /\ lk' = [lk EXCEPT !.r = @ \cup {t}]
    /\ At(t, "read")
    /\ UNCHANGED <<tcall, tdone, lmap, acc>>

\* i := b.lights[s]; l := b.lights
LockRead(t) ==
    /\ tpc[t] = "read"
    /\ Access(t, "read")
    /\ At(t, "runlock")
    /\ UNCHANGED <<lk, tcall, tdone, lmap>>

\* b.lock.RUnlock(): sync.RWMutex ends the process with "sync: RUnlock of
\* unlocked RWMutex" when no reader holds the lock, the write lock stays taken
LockRUnlock(t) ==
    /\ tpc[t] = "runlock"
    /\ lk' = [lk EXCEPT !.r = @ \ {t}]
    /\ At(t, IF t \in lk.r THEN "idle" ELSE "fatal")
    /\ UNCHANGED <<tcall, tdone, lmap, acc>>

LockNext ==
    \/ \E t \in Threads : \E c \in LockCalls : LockCall(t, c)
    \/ \E t \in Threads : LockCheck(t)
    \/ \E t \in Threads : LockLock(t)
    \/ \E t \in Threads : LockReset(t)
    \/ \E t \in Threads : LockFetch(t)
    \/ \E t \in Threads : LockUnlock(t)
    \/ \E t \in Threads : LockReturn(t)
    \/ \E t \in Threads : LockSearchLock(t)
    \/ \E t \in Threads : LockRLock(t)
    \/ \E t \in Threads : LockRead(t)
    \/ \E t \in Threads : LockRUnlock(t)

InitLock ==
    RecStart("L1", FALSE, NilGamut) /\ HexIdle /\ BridgeIdle /\ LockIdle /\ ValIdle /\ GamIdle
    /\ HarnessIdle

SpecLock == InitLock /\ [][LockNext]_vars

\* C17: every read and every write of a cache map happens with the bridge
\* lock held by the thread: the write lock for a write, the shared or the
\* write lock for a read
C17_MapAccessUnderLock ==
    acc.kind # "none" =>
        /\ acc.held # "none"
        /\ acc.kind = "write" => acc.held = "write"

(***************************************************************************)
(* Sensor values.  Values maps a value name to what the JSON of the sensor *)
(* state gave for it: a bool, a number (float64), a string or null.  Names *)
(* are sequences of one-character strings.                                 *)
(***************************************************************************)
MaxFetches == 2

\* the name left as the caller wrote it
ToLowerNone(s) == s

\* strings.ToLower
ToLower(s) == [i \in 1..Len(s) |-> FoldChar(s[i])]

\* the value names the sensor state may carry, one of them with a capital
StoredKeys == {<<"h", "e", "l", "d">>, <<"H", "a", "n", "d">>}
AskedNames == {<<"h", "e", "l", "d">>, <<"H", "E", "L", "D">>, <<"H", "e", "l", "d">>,
               <<"h", "a", "n", "d">>, <<"H", "a", "n", "d">>, <<"d", "u", "l", "l">>}
StoredVals == {[t |-> "bool", v |-> "true"], [t |-> "number", v |-> "21"],
               [t |-> "string", v |-> "on"], [t |-> "null", v |-> ""]}
ValueMaps == UNION {[ks -> StoredVals] : ks \in SUBSET StoredKeys}

\* the type a lookup function asks for, and the zero value it returns on error
Getters == {"GetBool", "GetString", "GetNumber", "Bool", "String", "Number"}
Want(fn) == CASE fn \in {"GetBool", "Bool"} -> "bool"
              [] fn \in {"GetString", "String"} -> "string"
              [] OTHER -> "number"
Zero(t) == CASE t = "bool" -> "false" [] t = "string" -> "" [] OTHER -> "0"

\* Sensor.GetBool, GetString, GetNumber
Lookup(vals, t, n) ==
    LET k == ToLower(n)
    IN IF k \notin DOMAIN vals THEN [val |-> Zero(t), err |-> "ErrNotFound"]
       ELSE IF vals[k].t = t THEN [val |-> vals[k].v, err |-> "nil"]
       ELSE [val |-> Zero(t), err |-> "ErrNotType"]

ValInit ==
    /\ svalues \in ValueMaps
    /\ smask = 0
    /\ sreqs = 0
    /\ sget = NoGet

\* a lookup by one of the six functions
SensorGet(fn, n) ==
    /\ LET g == Lookup(svalues, Want(fn), n)
       IN sget' = [fn |-> fn, n |-> n, val |-> g.val, err |-> g.err,
                   pre |-> [values |-> svalues, mask |-> smask, reqs |-> sreqs]]
    /\ UNCHANGED <<svalues, smask, sreqs>>
    /\ UNCHANGED <<recVars, hexVars, bridgeVars, lockVars, gamVars, harnessVars>>

\* Sensor.SetOn with Manual set: the bit is staged, nothing is sent
SensorStage ==
    /\ And(smask, maskOn) = 0
    /\ smask' = Or(smask, maskOn)
    /\ sget' = NoGet
    /\ UNCHANGED <<svalues, sreqs>>
    /\ UNCHANGED <<recVars, hexVars, bridgeVars, lockVars, gamVars, harnessVars>>

\* Sensor.UpdateContext: with a clean mask the state is fetched and decoded
\* into Values (json.Unmarshal adds to the entries of the map); with a dirty
\* mask the staged change is sent and the mask cleared, or kept on failure
SensorRefresh ==
    /\ sreqs < MaxFetches
    /\ sreqs' = sreqs + 1
    /\ sget' = NoGet
    /\ IF smask = 0
       THEN /\ \E m \in ValueMaps :
                  svalues' = [k \in DOMAIN svalues \cup DOMAIN m |->
                                 IF k \in DOMAIN m THEN m[k] ELSE svalues[k]]
            /\ UNCHANGED smask
       ELSE /\ smask' \in {0, smask}
            /\ UNCHANGED svalues
    /\ UNCHANGED <<recVars, hexVars, bridgeVars, lockVars, gamVars, harnessVars>>

ValNext ==
    \/ \E fn \in Getters : \E n \in AskedNames : SensorGet(fn, n)
    \/ SensorStage
    \/ SensorRefresh

InitValues ==
    RecStart("L1", FALSE, NilGamut) /\ HexIdle /\ BridgeIdle /\ LockIdle /\ ValInit /\ GamIdle
    /\ HarnessIdle

SpecValues == InitValues /\ [][ValNext]_vars

\* the lower-case form of a name, letter by letter from the alphabet tables
RefLower(n) ==
    [i \in 1..Len(n) |->
        IF \E j \in 1..Len(UpperLetters) : n[i] = UpperLetters[j]
        THEN LowerLetters[CHOOSE j \in 1..Len(UpperLetters) : n[i] = UpperLetters[j]]
        ELSE n[i]]

\* C18: a lookup by name returns ErrNotFound exactly when nothing is stored
\* under the lower-cased name, ErrNotType exactly when something is stored
\* there that is not of the type asked for, and otherwise the stored value
\* without error; it leaves the values and the mask alone and sends nothing
C18_LookupByNameAndType ==
    sget.fn # "none" =>
        LET k == RefLower(sget.n)
            has == k \in DOMAIN svalues
        IN /\ (sget.err = "ErrNotFound") <=> ~has
           /\ (sget.err = "ErrNotType") <=> (has /\ svalues[k].t # Want(sget.fn))
           /\ (sget.err = "nil") <=> (has /\ svalues[k].t = Want(sget.fn))
           /\ sget.err = "nil" => sget.val = svalues[k].v
           /\ svalues = sget.pre.values
           /\ smask = sget.pre.mask
           /\ sreqs = sget.pre.reqs

\* Number("HELD") on a sensor that stores a bool under "held", with a staged
\* change pending and a fetch behind it
C18_Witness ==
    /\ sget.fn = "Number"
    /\ sget.n = <<"H", "E", "L", "D">>
    /\ sget.err = "ErrNotType"
    /\ smask # 0
    /\ sreqs > 0

(***************************************************************************)
(* Gamut geometry.  A triangle is asked about the points of a grid over    *)
(* the unit square of chromaticities.                                      *)
(***************************************************************************)
GridN == 10
SampleN == 20

\* the fixed-point steps by which a computed edge point may be off
EdgeTol == 10

GridValues == {(i * Unit) \div GridN : i \in 0..GridN}

\* the six ways of naming the vertices of a triangle
Relabellings(g) ==
    {[Red |-> g.Red, Blue |-> g.Blue, Green |-> g.Green],
     [Red |-> g.Red, Blue |-> g.Green, Green |-> g.Blue],
     [Red |-> g.Blue, Blue |-> g.Red, Green |-> g.Green],
     [Red |-> g.Blue, Blue |-> g.Green, Green |-> g.Red],
     [Red |-> g.Green, Blue |-> g.Red, Green |-> g.Blue],
     [Red |-> g.Green, Blue |-> g.Blue, Green |-> g.Red]}

Triangles == Relabellings(defaultGamut) \cup Relabellings(deviceGamut)

GamInit ==
    /\ tri \in Triangles
    /\ probe = NoProbe

\* reachable(x, y) and closestPoint(x, y) of the triangle
GamutProbe(x, y) ==
    /\ probe' = [asked |-> TRUE, p |-> <<x, y>>, inside |-> reachable(tri, x, y),
                 near |-> closestPoint(tri, x, y)]
    /\ UNCHANGED tri
    /\ UNCHANGED <<recVars, hexVars, bridgeVars, lockVars, valVars, harnessVars>>

GamNext == \E x \in GridValues : \E y \in GridValues : GamutProbe(x, y)

InitGamut ==
    RecStart("L1", FALSE, NilGamut) /\ HexIdle /\ BridgeIdle /\ LockIdle /\ ValIdle /\ GamInit
    /\ HarnessIdle

SpecGamut == InitGamut /\ [][GamNext]_vars

Abs(x) == IF x < 0 THEN -x ELSE x

\* twice the signed area of a, b, p: its sign tells the side of line a-b p is on
Cross(a, b, p) == (b[1] - a[1]) * (p[2] - a[2]) - (b[2] - a[2]) * (p[1] - a[1])

Sides(g, p) == {Cross(g.Red, g.Green, p), Cross(g.Green, g.Blue, p), Cross(g.Blue, g.Red, p)}
StrictlyInside(g, p) == (\A s \in Sides(g, p) : s > 0) \/ (\A s \in Sides(g, p) : s < 0)
StrictlyOutside(g, p) == (\E s \in Sides(g, p) : s > 0) /\ (\E s \in Sides(g, p) : s < 0)

\* C19: reachable is true for the points strictly inside the triangle and
\* false for the points strictly outside it, and says the same under every
\* naming of the vertices
C19_ReachableIsMembership ==
    probe.asked =>
        /\ StrictlyInside(tri, probe.p) => probe.inside
        /\ StrictlyOutside(tri, probe.p) => ~probe.inside
        /\ \A g \in Relabellings(tri) : reachable(g, probe.p[1], probe.p[2]) = probe.inside

\* a point strictly inside the default gamut; its j and k have a negative
\* common denominator
C19_Witness ==
    /\ probe.asked
    /\ tri = defaultGamut
    /\ StrictlyInside(tri, probe.p)
    /\ probe.inside
    /\ Cross(tri.Red, tri.Green, tri.Blue) < 0

\* q is on segment a-b, up to the rounding of the computed point
OnEdge(a, b, q) ==
    LET j == <<b[1] - a[1], b[2] - a[2]>>
        h == <<q[1] - a[1], q[2] - a[2]>>
        slack == EdgeTol * (Abs(j[1]) + Abs(j[2]))
        dot == h[1] * j[1] + h[2] * j[2]
    IN /\ Abs(Cross(a, b, q)) <= slack
       /\ dot >= -slack
       /\ dot <= j[1] * j[1] + j[2] * j[2] + slack

Edges(g) == {<<g.Red, g.Green>>, <<g.Blue, g.Red>>, <<g.Green, g.Blue>>}

\* points along the boundary of the triangle, the vertices among them
BoundarySamples(g) ==
    {<<e[1][1] + ((e[2][1] - e[1][1]) * i) \div SampleN,
       e[1][2] + ((e[2][2] - e[1][2]) * i) \div SampleN>> : e \in Edges(g), i \in 0..SampleN}

SetMin(S) == CHOOSE m \in S : \A s \in S : m <= s

\* C20: for a point outside the triangle closestPoint returns a point of one
\* of the three edges, at the least of the distances of the three per-edge
\* closest points, and no point of the boundary is nearer (up to rounding)
C20_ClosestPointOnBoundary ==
    probe.asked /\ ~probe.inside =>
        LET x == probe.p[1]
            y == probe.p[2]
            d == Dist2(probe.near, x, y)
        IN /\ ~IsNaN(probe.near)
           /\ \E e \in Edges(tri) : OnEdge(e[1], e[2], probe.near)
           /\ d = SetMin({Dist2(closest(e[1], e[2], x, y), x, y) : e \in Edges(tri)})
           /\ \A s \in BoundarySamples(tri) :
                 d <= Dist2(s, x, y) + 2 * EdgeTol * (Abs(s[1] - x) + Abs(s[2] - y))
                        + EdgeTol * EdgeTol

\* the corner (0, 1) of the unit square is nearest to the Blue vertex of the
\* default gamut, an end point of two edges
C20_Witness ==
    /\ probe.asked
    /\ ~probe.inside
    /\ tri = defaultGamut
    /\ probe.p = <<0, Unit>>
    /\ probe.near = tri.Blue

(***************************************************************************)
(* The colour round trip: xyFromRGB with the default gamut, then rgbFromXy *)
(* with a luminance l (scaled by Fine).  Go leaves the conversion of a NaN *)
(* to uint8 to the implementation, so any of NaNBytes may come out.        *)
(***************************************************************************)
TripChannels == {0, 128, 255}
TripColors == TripChannels \X TripChannels \X TripChannels
\* the Y of each primary (the second row of the matrix of xyFromRGB), half and full
Luminances == {47685, 283881, 668433, 500000, 1000000}
NaNBytes == {0, 255}

\* the colour and the luminance the caller is about to convert
TripInit ==
    \E c \in TripColors : \E l \in Luminances :
       rt = [asked |-> FALSE, rgb |-> c, l |-> l, xy |-> <<0, 0>>, back |-> <<0, 0, 0>>]

RoundTrip ==
    /\ ~rt.asked
    /\ \E p \in {xyFromRGB(defaultGamut, rt.rgb[1], rt.rgb[2], rt.rgb[3])} :
       \E q \in {rgbFromXy(defaultGamut, rt.l, p[1], p[2])} :
       \E u \in (IF q = NaNColor THEN NaNBytes ELSE {0}) :
          rt' = [rt EXCEPT !.asked = TRUE, !.xy = p,
                           !.back = IF q = NaNColor THEN <<u, u, u>> ELSE q]
    /\ UNCHANGED <<recVars, hexVars, bridgeVars, lockVars, valVars, gamVars, ack, dec, gf,
                 lateVars>>

TripNext == RoundTrip

InitTrip ==
    RecStart("L1", FALSE, NilGamut) /\ HexIdle /\ BridgeIdle /\ LockIdle /\ ValIdle /\ GamIdle
    /\ TripInit /\ ack = NoAck /\ dec = NoDecode /\ gf = NoFetch
    /\ rc = NoRace /\ tr = NoTransition /\ gc = NoClass

SpecTrip == InitTrip /\ [][TripNext]_vars

Primaries == {<<255, 0, 0>>, <<0, 255, 0>>, <<0, 0, 255>>}

\* C21: a primary colour converted to xy with the default gamut and back with
\* a fixed luminance comes back within 2 units in every channel
C21_PrimaryRoundTrip ==
    (rt.asked /\ rt.rgb \in Primaries) =>
        \A i \in 1..3 : Abs(rt.back[i] - rt.rgb[i]) <= 2

(***************************************************************************)
(* C22.  When a synchronization needs an identity PUT and a state PUT and  *)
(* the first succeeds but the second fails, the call returns that error,   *)
(* the identity bits are cleared and every state bit that was set stays    *)
(* set; the next Update of the record issues one request only, the state   *)
(* PUT with the keys of those bits (no identity PUT, no GET).              *)
(***************************************************************************)
PartialPush ==
    /\ Called /\ Len(reqs) = 2
    /\ IsPut(reqs[1], op.rec, "") /\ reqs[1].err = "nil"
    /\ IsPut(reqs[2], op.rec, Sub(op.rec)) /\ reqs[2].err # "nil"

\* the keys of the payload sent to the sub-path for the state bits of m
SubKeys(r, m) ==
    IF r \in SensorIds THEN StateKeys(m) ELSE {"transitiontime"} \cup StateKeys(m)

C22_PartialPushKeepsStateBits ==
    [][/\ PartialPush' =>
             /\ ret' = reqs'[2].err
             /\ BitsOf(mask'[op'.rec]) = BitsOf(mask0') \ IdentityBits
             /\ BitsOf(mask0') \ IdentityBits # {}
       /\ (PartialPush /\ op'.name = "Update" /\ manual' = manual /\ edits' = edits)
             => /\ Len(reqs') = 1
                /\ IsPut(reqs'[1], op.rec, Sub(op.rec))
                /\ DOMAIN reqs'[1].d = SubKeys(op.rec, mask[op.rec])
                /\ mask0' = mask[op.rec]]_vars

C22_Witness ==
    /\ PartialPush /\ op.name = "Update" /\ focus \in SensorIds
    /\ BitsOf(mask0) = {maskName, maskOn}
    /\ mask[focus] = maskOn /\ ret = "remote"

(***************************************************************************)
(* The acknowledgement of a push.  One record with staged bits is          *)
(* synchronized once; resp is what the bridge answers to the first or to   *)
(* the second PUT of the sequence, the other PUT being acknowledged with   *)
(* a plain success.  An array holds success entries, error entries of two  *)
(* different addresses and entries with neither key.                       *)
(***************************************************************************)
MaxAckLen == 3

AckEntries == {"success", "error", "error2", "other"}
AckArrays == UNION {[1..n -> AckEntries] : n \in 0..MaxAckLen}
\* Obj("error") is the single object {"error": {...}}
AckReplies == {NetErr, Obj("error")} \cup {Arr(a) : a \in AckArrays}
AckMasks == {maskOn, Or(maskOn, maskName)}

AckInit ==
    \E r \in Records : \E resp \in AckReplies : \E m \in AckMasks : \E f \in BOOLEAN :
       ack = [done |-> FALSE, rec |-> r, resp |-> resp, first |-> f, m0 |-> m,
              mask |-> m, ret |-> "nil", reqs |-> <<>>]

\* Update of the record with the mask m0
AckUpdate ==
    /\ ~ack.done
    /\ LET ok == Arr(<<"success">>)
           rs == IF ack.first THEN <<ack.resp, ok>> ELSE <<ok, ack.resp>>
       IN \E o \in {UpdateContext(ack.rec, InitSnap(FALSE), ack.m0, rs)} :
             ack' = [ack EXCEPT !.done = TRUE, !.mask = o.mask, !.ret = o.ret,
                                !.reqs = o.reqs]
    /\ UNCHANGED <<recVars, hexVars, bridgeVars, lockVars, valVars, gamVars, rt, dec, gf,
                 lateVars>>

AckNext == AckUpdate

InitAck ==
    RecStart("L1", FALSE, NilGamut) /\ HexIdle /\ BridgeIdle /\ LockIdle /\ ValIdle /\ GamIdle
    /\ rt = NoTrip /\ AckInit /\ dec = NoDecode /\ gf = NoFetch
    /\ rc = NoRace /\ tr = NoTransition /\ gc = NoClass

SpecAck == InitAck /\ [][AckNext]_vars

\* the request that resp answered, when the sequence got that far
AckAt == IF ack.first THEN 1 ELSE 2
AckHit == ack.done /\ Len(ack.reqs) >= AckAt

ErrorEntries == {"error", "error2"}

\* an array of success and error entries with at least one error entry
HasError(resp) ==
    /\ resp.t = "array"
    /\ \E i \in 1..Len(resp.items) : resp.items[i] \in ErrorEntries
    /\ \A i \in 1..Len(resp.items) : resp.items[i] \in ErrorEntries \cup {"success"}

FirstError(resp) ==
    LET i == CHOOSE j \in 1..Len(resp.items) :
                /\ resp.items[j] \in ErrorEntries
                /\ \A k \in 1..(j - 1) : resp.items[k] \notin ErrorEntries
    IN resp.items[i]

\* the error message that carries the address and description of an error entry
MessageOf(item) == IF item = "error" THEN "remote" ELSE "remote2"

(***************************************************************************)
(* C23.  A PUT whose acknowledgement array holds an error entry fails,     *)
(* whatever success entries stand before or after it: the request returns  *)
(* the error built from the first error entry, the call returns it, no     *)
(* further request is sent and the state bits staged stay set.             *)
(***************************************************************************)
C23_ErrorEntryFailsWrite ==
    (AckHit /\ HasError(ack.resp))
        => /\ ack.reqs[AckAt].err = MessageOf(FirstError(ack.resp))
           /\ ack.ret = MessageOf(FirstError(ack.resp))
           /\ Len(ack.reqs) = AckAt
           /\ BitsOf(ack.mask) \cap StateBits = BitsOf(ack.m0) \cap StateBits
           /\ BitsOf(ack.m0) \cap StateBits # {}

C23_Witness ==
    /\ AckHit /\ ~ack.first /\ ack.rec \in LightIds
    /\ ack.resp = Arr(<<"success", "error2", "error">>)
    /\ ack.ret = "remote2" /\ ack.mask = maskOn

(***************************************************************************)
(* C24.  A PUT acknowledged with a single error object, not an array,      *)
(* makes the synchronization return a remote-validation error and leaves   *)
(* the dirty mask uncleared.                                               *)
(***************************************************************************)
C24_ErrorObjectFailsWrite ==
    (AckHit /\ ack.resp = Obj("error"))
        => /\ ack.ret \in {"remote", "remote2"}
           /\ ack.mask # 0

\* C25: when the population of a kind fails in a call, by a failed request or
\* by the decoding of one entry of the listing, the map of that kind is nil
\* when the call returns, so no partly decoded map is left to later accessors
C25_FailedPopulationLeavesNil ==
    \A i \in 1..Len(bfetch) :
       bfetch[i].err # "nil" =>
          \A k \in Kinds : PathOf(k) = bfetch[i].path => MapOf(cache, k).nil

(***************************************************************************)
(* The decoding of the /lights listing.  An entry of the listing says      *)
(* whether the fields Control.unmarshal requires are there, whether it has *)
(* "capabilities", and the keys of that object and of its "control"        *)
(* object (which is there when "control" is a key of the capabilities).    *)
(* A listing and a map are sets of [key, ...] records with distinct keys;  *)
(* a decoded record carries its ID and the key of the entry it was decoded *)
(* from, and NilRec stands for a nil pointer.                              *)
(***************************************************************************)
Entry(req, hasCaps, caps, control) ==
    [req |-> req, hasCaps |-> hasCaps, caps |-> caps, control |-> control]

CapKeys == {"certified", "control", "streaming"}

\* the entries a bridge lists: one without "uniqueid", a device without
\* capabilities, one without "control", a plug, a dimmable switch, a white
\* bulb, a colour-temperature bulb and a colour bulb
EntryShapes ==
    {Entry(FALSE, TRUE, CapKeys, {"mindimlevel", "maxlumen"}),
     Entry(TRUE, FALSE, {}, {}),
     Entry(TRUE, TRUE, CapKeys \ {"control"}, {}),
     Entry(TRUE, TRUE, CapKeys, {}),
     Entry(TRUE, TRUE, CapKeys, {"mindimlevel"}),
     Entry(TRUE, TRUE, CapKeys, {"mindimlevel", "maxlumen"}),
     Entry(TRUE, TRUE, CapKeys, {"mindimlevel", "ct"}),
     Entry(TRUE, TRUE, CapKeys, {"mindimlevel", "maxlumen", "ct", "colorgamut"})}

EntryIds == {"1", "2", "3"}

NilRec == [ID |-> "", from |-> "", gamut |-> FALSE]
NilDecoder == [l |-> NilRec, c |-> NilRec]

\* decoder.unmarshal that looks for "maxlumen" only (the property C26 tells
\* the two apart)
decoderUnmarshalLumenOnly(j, i, e) ==
    LET c1 == [ID |-> i, from |-> i, gamut |-> FALSE]
        m == e.caps \cup e.control
    IN IF ~e.req THEN [d |-> [j EXCEPT !.c = [NilRec EXCEPT !.from = i]], err |-> "decode"]
       ELSE IF ~e.hasCaps \/ "control" \notin e.caps \/ m = {} \/ "maxlumen" \notin m
            THEN [d |-> [j EXCEPT !.c = c1], err |-> "nil"]
       ELSE [d |-> [l |-> [c1 EXCEPT !.gamut = "colorgamut" \in m], c |-> c1],
             err |-> "nil"]

\* decoder.unmarshal(i, b, d) on the decoder j: j.c is always replaced, j.l is
\* assigned only when the entry is a light.  The "control" object is decoded
\* into the map that already holds the keys of the capabilities
decoderUnmarshal(j, i, e) ==
    LET c1 == [ID |-> i, from |-> i, gamut |-> FALSE]
        m == e.caps \cup e.control
    IN IF ~e.req THEN [d |-> [j EXCEPT !.c = [NilRec EXCEPT !.from = i]], err |-> "decode"]
       ELSE IF ~e.hasCaps \/ "control" \notin e.caps \/ m = {}
               \/ ("maxlumen" \notin m /\ "ct" \notin m)
            THEN [d |-> [j EXCEPT !.c = c1], err |-> "nil"]
       ELSE [d |-> [l |-> [c1 EXCEPT !.gamut = "colorgamut" \in m], c |-> c1],
             err |-> "nil"]

EntryOf(listing, k) == (CHOOSE x \in listing : x.key = k).e

Put(map, k, r) == {x \in map : x.key # k} \cup {[key |-> k, rec |-> r]}

RECURSIVE decodeLoop(_, _, _, _, _, _, _)
\* the loop of getControls over the entries in the order Go's map iteration
\* takes, from the n-th on; shared tells whether the decoder is declared
\* before the loop (bridge.go, part_005) or inside it (part_000)
decodeLoop(listing, order, n, shared, d, lights, controls) ==
    IF n > Len(order) THEN [lights |-> lights, controls |-> controls, err |-> "nil"]
    ELSE LET k == order[n]
             u == decoderUnmarshal(IF shared THEN d ELSE NilDecoder, k, EntryOf(listing, k))
         IN IF u.err # "nil"
            THEN [lights |-> lights, controls |-> controls, err |-> u.err]
            ELSE IF u.d.l # NilRec
            THEN decodeLoop(listing, order, n + 1, shared, u.d, Put(lights, k, u.d.l),
                            controls)
            ELSE decodeLoop(listing, order, n + 1, shared, u.d, lights,
                            Put(controls, k, u.d.c))

\* the orders in which a map of these keys may be iterated
Orders(keys) ==
    {o \in UNION {[1..n -> keys] : n \in {Cardinality(keys)}} :
        \A a, b \in 1..Len(o) : a # b => o[a] # o[b]}

Listings ==
    UNION {{{[key |-> k, e |-> f[k]] : k \in ks} : f \in [ks -> EntryShapes]} :
             ks \in SUBSET EntryIds \ {{}}}

DecodeInit ==
    \E l \in Listings : \E s \in BOOLEAN :
       dec = [NoDecode EXCEPT !.listing = l, !.shared = s]

\* Bridge.getControls from the decoding of the listing on
DecodeAll ==
    /\ ~dec.done
    /\ \E o \in Orders({x.key : x \in dec.listing}) :
       \E r \in {decodeLoop(dec.listing, o, 1, dec.shared, NilDecoder, {}, {})} :
          dec' = [dec EXCEPT !.done = TRUE, !.order = o, !.lights = r.lights,
                             !.controls = r.controls, !.err = r.err]
    /\ UNCHANGED <<recVars, hexVars, bridgeVars, lockVars, valVars, gamVars, rt, ack, gf,
                 lateVars>>

DecodeNext == DecodeAll

InitDecode ==
    RecStart("L1", FALSE, NilGamut) /\ HexIdle /\ BridgeIdle /\ LockIdle /\ ValIdle /\ GamIdle
    /\ rt = NoTrip /\ ack = NoAck /\ DecodeInit /\ gf = NoFetch
    /\ rc = NoRace /\ tr = NoTransition /\ gc = NoClass

SpecDecode == InitDecode /\ [][DecodeNext]_vars

DecKeys(map) == {x.key : x \in map}

\* what the capabilities of an entry say it is
IsLightEntry(e) ==
    /\ e.hasCaps /\ "control" \in e.caps
    /\ e.control # {}
    /\ ("maxlumen" \in e.control \/ "ct" \in e.control)

\* every entry stored is stored once, under its own ID, in the map its own
\* capabilities call for; after a pass without error every entry is stored
ClassifiedByOwnPayload ==
    /\ DecKeys(dec.lights) \cap DecKeys(dec.controls) = {}
    /\ \A x \in dec.lights \cup dec.controls :
          /\ x.rec.ID = x.key /\ x.rec.from = x.key
          /\ \A y \in dec.lights \cup dec.controls : y.key = x.key => y = x
          /\ x \in dec.lights <=> IsLightEntry(EntryOf(dec.listing, x.key))
    /\ dec.err = "nil" =>
          DecKeys(dec.lights) \cup DecKeys(dec.controls) = DecKeys(dec.listing)

\* C26: in a population pass every entry of the /lights listing is stored
\* once, under its own ID, in lights iff its capabilities.control object is
\* non-empty and holds "maxlumen" or "ct", else in controls; the key sets are
\* disjoint and together they are the IDs of the listing
C26_ClassifiedOnce ==
    (dec.done /\ ~dec.shared) => ClassifiedByOwnPayload

C26_Witness ==
    /\ dec.done /\ ~dec.shared /\ dec.err = "nil"
    /\ dec.order = <<"1", "3", "2">>
    /\ DecKeys(dec.lights) = {"1", "2"} /\ DecKeys(dec.controls) = {"3"}
    /\ EntryOf(dec.listing, "2").control = {"mindimlevel", "ct"}

\* C27: in the getControls variants that declare one decoder for all the
\* entries, what an entry is stored as depends on its own payload only: a
\* switch decoded after a light is stored in controls under its own ID, and
\* no ID of lights maps to a record decoded from another entry
C27_SharedDecoderIndependent ==
    (dec.done /\ dec.shared) => ClassifiedByOwnPayload

(***************************************************************************)
(* Update of a Group with an empty mask.  The group has some membership    *)
(* <<Lights, Controls, Sensors>> from an earlier decoding; the bridge      *)
(* answers the GET with a failure or with a representation of the group.   *)
(***************************************************************************)
GroupReps == {"full", "nostate", "single", "nolights", "nosensors", "nomembers"}
FetchReplies == {NetErr, Arr(<<"error">>)} \cup {Obj(p) : p \in GroupReps}
Memberships == {<<>>, <<"L1">>} \X {<<>>, <<"C1">>} \X {<<>>, <<"S1">>}

FetchInit ==
    \E b \in Memberships : \E resp \in FetchReplies :
       gf = [NoFetch EXCEPT !.before = b, !.resp = resp, !.after = b]

\* Group.Update with mask 0
GroupFetch ==
    /\ ~gf.done
    /\ LET s0 == [InitSnap(FALSE) EXCEPT !.lights = gf.before[1],
                                         !.controls = gf.before[2],
                                         !.sensors = gf.before[3]]
       IN \E o \in {GroupUpdateContext("G1", s0, 0, <<gf.resp, gf.resp>>)} :
             gf' = [gf EXCEPT !.done = TRUE, !.ret = o.ret, !.reqs = o.reqs,
                              !.after = <<o.snap.lights, o.snap.controls, o.snap.sensors>>]
    /\ UNCHANGED <<recVars, hexVars, bridgeVars, lockVars, valVars, gamVars, rt, ack, dec,
                 lateVars>>

FetchNext == GroupFetch

InitFetch ==
    RecStart("L1", FALSE, NilGamut) /\ HexIdle /\ BridgeIdle /\ LockIdle /\ ValIdle /\ GamIdle
    /\ rt = NoTrip /\ ack = NoAck /\ dec = NoDecode /\ FetchInit
    /\ rc = NoRace /\ tr = NoTransition /\ gc = NoClass

SpecFetch == InitFetch /\ [][FetchNext]_vars

\* C30: after an Update of a Group with an empty mask that fetched a
\* representation, Lights, Controls and Sensors are exactly the cached records
\* whose IDs are in the fetched "lights" and "sensors" lists; a fetched empty
\* list leaves the membership empty
C30_FetchReplacesMembership ==
    (gf.done /\ gf.ret = "nil") =>
        /\ Range(gf.after[1]) = Range(RepLightsOf(gf.resp.rep)) \cap LightIds
        /\ Range(gf.after[2]) = Range(RepLightsOf(gf.resp.rep)) \cap (ControlIds \ LightIds)
        /\ Range(gf.after[3]) = Range(RepSensorsOf(gf.resp.rep)) \cap SensorIds

\* C29: for every RGB triple, (0, 0, 0) included, xyFromRGB returns a
\* well-defined point inside or on the boundary of the gamut triangle
C29_RGBPointInGamut ==
    rt.asked =>
        /\ ~IsNaN(rt.xy)
        /\ \/ reachable(defaultGamut, rt.xy[1], rt.xy[2])
           \/ \E e \in Edges(defaultGamut) : OnEdge(e[1], e[2], rt.xy)

(***************************************************************************)
(* C28.  A mutator or an Update of one record changes that record only:    *)
(* the snapshot and the dirty mask of every other record are the same      *)
(* after the call, the membership of every group is the same (but for the  *)
(* group an Update with an empty mask re-fetches), and so are the four     *)
(* cache maps of the bridge.                                               *)
(***************************************************************************)
Members(s) == <<s.lights, s.controls, s.sensors>>

Blocked(t) ==
    \/ tpc[t] = "fatal"
    \/ tpc[t] \in {"lock", "wlock"} /\ ~(lk.w = "none" /\ lk.r = {})
    \/ tpc[t] = "rlock" /\ lk.w # "none"

\* C31: an accessor releases the lock mode it acquired: a thread that has
\* returned holds nothing, a thread about to call RUnlock holds the shared
\* lock and one about to call Unlock the write lock, and whenever some call
\* is under way one of the calls under way can take its next step
C31_AccessorsReleaseLock ==
    /\ \A t \in Threads : tpc[t] = "idle" => Held(t) = "none"
    /\ \A t \in Threads : tpc[t] = "runlock" => Held(t) = "shared"
    /\ \A t \in Threads : tpc[t] = "unlock" => Held(t) = "write"
    /\ (\E t \in Threads : tpc[t] # "idle")
          => \E t \in Threads : tpc[t] # "idle" /\ ~Blocked(t)

\* C32: an accessor fetches and installs the listing only into a map that is
\* still nil when it holds the write lock: it does not replace a map another
\* thread has installed while it waited
C32_OneFetchPerPass ==
    [][\A t \in Threads :
          (tpc[t] = "fetch" /\ tpc'[t] = "unlock" /\ tcall[t] # "Update")
             => lmap = "nil"]_vars

(***************************************************************************)
(* One Control used by two threads.  The record has no lock: thread        *)
(* Syncer is in Update, thread Setter in SetOn(true), and a step is one    *)
(* statement of SetOn or of UpdateContext.  The record enters with a       *)
(* brightness and/or a name staged, or clean.                              *)
(***************************************************************************)
Syncer == "A"
Setter == "B"
RaceMasks == {0, maskBrightness, maskName, maskName + maskBrightness}

RaceInit ==
    \E m \in RaceMasks : \E mn \in BOOLEAN :
       rc = [NoRace EXCEPT !.pc = [t \in Threads |-> IF t = Syncer THEN "test" ELSE "set"],
                           !.manual = mn, !.mask = m,
                           !.name = IF And(m, maskName) # 0 THEN "desk" ELSE "lamp",
                           !.bri = IF And(m, maskBrightness) # 0 THEN 200 ELSE 0]

RaceStep(t, pc, new) ==
    /\ rc.pc[t] = pc
    /\ rc' = new
    /\ UNCHANGED <<recVars, hexVars, bridgeVars, lockVars, valVars, gamVars,
                   rt, ack, dec, gf, tr, gc>>

RaceGoto(t, pc) == [rc EXCEPT !.pc[t] = pc]

\* c.state.On = s
RaceSetOn(t) == RaceStep(t, "set", [RaceGoto(t, "or") EXCEPT !.on = TRUE])

\* if c.mask |= maskOn; c.Manual { return nil }; return c.UpdateContext(...)
RaceOr(t) ==
    RaceStep(t, "or", [RaceGoto(t, IF rc.manual THEN "done" ELSE "test")
                          EXCEPT !.mask = Or(rc.mask, maskOn)])

\* if c.mask == 0 {...}; if c.mask >= maskName {...}
RaceTest(t) ==
    RaceStep(t, "test", RaceGoto(t, IF rc.mask = 0 THEN "get"
                                    ELSE IF rc.mask >= maskName THEN "marshalId"
                                    ELSE "marshal"))

\* the GET and c.unmarshal(m): the snapshot becomes the remote one
RaceGet(t) ==
    \E ok \in BOOLEAN :
       RaceStep(t, "get",
                IF ok THEN [RaceGoto(t, "done") EXCEPT !.name = "lamp", !.on = FALSE, !.bri = 0]
                ELSE [RaceGoto(t, "done") EXCEPT !.ret[t] = "transport"])

\* b, err := c.marshal(); c.mask = c.mask &^ maskStartup
RaceMarshalId(t) ==
    RaceStep(t, "marshalId",
             [RaceGoto(t, "putId")
                EXCEPT !.body[t] = [NoPayload EXCEPT
                                      !.keys = Key(And(rc.mask, maskName) # 0, "name"),
                                      !.name = IF And(rc.mask, maskName) # 0
                                               THEN rc.name ELSE "lamp"],
                       !.mask = AndNot(rc.mask, maskStartup)])

\* c.bridge.request(x, http.MethodPut, ..., b), and the return on its error
RaceSend(t) ==
    \E at \in {"putId", "put"} : \E ok \in BOOLEAN :
       RaceStep(t, at,
                IF ok THEN [RaceGoto(t, IF at = "putId" THEN "clearName" ELSE "clear")
                              EXCEPT !.sent = @ \cup {rc.body[t]}]
                ELSE [RaceGoto(t, "done") EXCEPT !.ret[t] = "transport"])

\* if c.mask = c.mask &^ maskName; c.mask == 0 { return nil }
RaceClearName(t) ==
    RaceStep(t, "clearName",
             [RaceGoto(t, IF AndNot(rc.mask, maskName) = 0 THEN "done" ELSE "marshal")
                EXCEPT !.mask = AndNot(rc.mask, maskName)])

\* b, err := c.state.marshal(c.mask)
RaceMarshal(t) ==
    RaceStep(t, "marshal",
             [RaceGoto(t, "put")
                EXCEPT !.body[t] =
                   [NoPayload EXCEPT
                      !.keys = Key(And(rc.mask, maskOn) # 0, "on")
                               \cup Key(And(rc.mask, maskBrightness) # 0, "bri"),
                      !.on = And(rc.mask, maskOn) # 0 /\ rc.on,
                      !.bri = IF And(rc.mask, maskBrightness) # 0 THEN rc.bri ELSE 0]])

\* c.mask = 0; return err
RaceClear(t) == RaceStep(t, "clear", [RaceGoto(t, "done") EXCEPT !.mask = 0])

RaceNext ==
    \/ RaceSetOn(Setter)
    \/ RaceOr(Setter)
    \/ \E t \in Threads : RaceTest(t)
    \/ \E t \in Threads : RaceGet(t)
    \/ \E t \in Threads : RaceMarshalId(t)
    \/ \E t \in Threads : RaceSend(t)
    \/ \E t \in Threads : RaceClearName(t)
    \/ \E t \in Threads : RaceMarshal(t)
    \/ \E t \in Threads : RaceClear(t)

InitRace ==
    /\ RecStart("L1", FALSE, NilGamut) /\ HexIdle /\ BridgeIdle /\ LockIdle /\ ValIdle /\ GamIdle
    /\ rt = NoTrip /\ ack = NoAck /\ dec = NoDecode /\ gf = NoFetch
    /\ tr = NoTransition /\ gc = NoClass
    /\ RaceInit

SpecRace == InitRace /\ [][RaceNext]_vars

\* C33: an edit staged while a synchronization of the same record is under
\* way is not lost: once SetOn(true) and the Update have both returned, the
\* on bit is still in the mask or a PUT carrying "on": true has succeeded
C33_StagedEditNotLost ==
    (\A t \in Threads : rc.pc[t] = "done")
       => \/ And(rc.mask, maskOn) # 0
          \/ \E b \in rc.sent : "on" \in b.keys /\ b.on

\* C34: every Light, Control and Sensor a cached Group points to is the
\* record stored under the same id in the current lights, controls or
\* sensors map
C34_GroupMembersAreCached ==
    \A g \in cache.groups.recs : \A m \in g.linked :
        \E r \in cache[m.kind].recs : r.id = m.id /\ r.gen = m.gen

(***************************************************************************)
(* Staged values and the re-fetch.                                         *)
(***************************************************************************)
\* the key under which the attribute of bit b travels in a PUT
PutKey(b) == IF b = maskName THEN "name" ELSE IF b = maskStartup THEN "config" ELSE KeyOf(b)

\* the attribute of bit b in a snapshot
FieldOf(b, s) ==
    CASE b = maskName -> <<s.name>>
      [] b = maskStartup -> <<s.startupMode, s.startupSettings>>
      [] b = maskLed -> <<s.led>>
      [] OTHER -> <<StateValue(s, KeyOf(b))>>

\* the bits staged when the last call began its synchronization (or returned,
\* under Manual) for which the call had no successful PUT carrying them
Unpushed ==
    IF ~Called THEN {}
    ELSE {b \in BitsOf(mask0) :
            ~\E i \in 1..Len(reqs) :
                /\ reqs[i].m = "PUT" /\ reqs[i].err = "nil"
                /\ PutKey(b) \in DOMAIN reqs[i].d}

\* the next call is an Update of the same record that takes the GET path and
\* changes the attribute of bit b
Refetches(b) ==
    /\ op'.name = "Update" /\ op'.rec = op.rec
    /\ mask0' = 0
    /\ FieldOf(b, snap'[op.rec]) # FieldOf(b, snap[op.rec])

\* C35: from the mutator call until a PUT carrying the attribute has
\* succeeded, no Update of the record takes the GET path and replaces the
\* staged value by the remote one, for every settable attribute
C35_StagedNotRefetched ==
    [][\A b \in Unpushed : ~Refetches(b)]_vars

(***************************************************************************)
(* Synchronization with a bridge that answers.  The caller stages what the *)
(* mutators allow, black included, and keeps calling Update on a dirty     *)
(* record; LiveUpdate is an Update all of whose requests succeed.          *)
(***************************************************************************)
LiveColors == {<<0, 0, 0>>}

\* the replies with which every request of a synchronization succeeds
OkReplies(r, m) ==
    {rs \in Replies(r, m) :
        \A i \in 1..2 : request("PUT", <<>>, EmptyBody, rs[i]).err = "nil"}

LiveUpdate ==
    \E r \in Records \cap {focus} :
        /\ mask[r] # 0
        /\ UNCHANGED edits
        /\ \E rs \in OkReplies(r, mask[r]) :
              Finish(r, "Update", UpdateContext(r, snap[r], mask[r], rs), gamut[r], mask[r])

LiveSetRGB == \E r \in LightIds \cap {focus}, c \in LiveColors : SetRGB(r, c)

LiveNext == Next \/ LiveSetRGB \/ LiveUpdate

SpecLive == Init /\ [][LiveNext]_vars /\ WF_vars(LiveUpdate)

\* C36: once the bridge answers and the caller keeps calling Update, every
\* record with a non-empty mask becomes Clean: a dirty record is eventually
\* clean, whatever value a mutator has staged
C36_EventuallyClean ==
    \A r \in Records : (mask[r] # 0) ~> (mask[r] = 0)

\* C37: when the GET of an Update on a clean Control or Light is answered but
\* the payload fails to decode, Update returns the decoding error and the
\* snapshot of the record is what it was before the call
C37_FailedDecodeKeepsSnapshot ==
    [][(/\ op'.name = "Update" /\ op'.rec \in ControlLike /\ mask0' = 0
        /\ reqs' # <<>> /\ reqs'[1].err = "nil" /\ ret' # "nil")
          => (ret' = "decode" /\ snap'[op'.rec] = snap[op'.rec])]_vars

(***************************************************************************)
(* The transition time.  Durations are in milliseconds; the command line   *)
(* takes seconds, minutes and hours.                                       *)
(***************************************************************************)
TransInputs ==
    {s * 1000 : s \in 0..59} \cup {m * 60000 : m \in 1..59} \cup {h * 3600000 : h \in 1..3}
    \cup {50, 150, 1999, 6553599, 6553600}

\* uint16(t / (time.Millisecond * 100)) for t >= 0
transitionOf(t) == (t \div 100) % 65536

\* Light.Transition: time.Duration(l.state.Transition) * (time.Millisecond * 100)
LightTransition(s) == s.transition * 100

TransInit == \E t \in TransInputs : tr = [NoTransition EXCEPT !.t = t]

\* SetTransition(t), then Transition() and the payload of the next state PUT
TransitionSet ==
    /\ ~tr.done
    /\ \E s \in {[InitSnap(FALSE) EXCEPT !.transition = transitionOf(tr.t)]} :
          tr' = [tr EXCEPT !.done = TRUE,
                           !.stored = s.transition,
                           !.got = LightTransition(s),
                           !.sent = controlStateMarshal(s, maskOn)["transitiontime"]]
    /\ UNCHANGED <<recVars, hexVars, bridgeVars, lockVars, valVars, gamVars,
                   rt, ack, dec, gf, rc, gc>>

TransNext == TransitionSet

InitTrans ==
    /\ RecStart("L1", FALSE, NilGamut) /\ HexIdle /\ BridgeIdle /\ LockIdle /\ ValIdle /\ GamIdle
    /\ rt = NoTrip /\ ack = NoAck /\ dec = NoDecode /\ gf = NoFetch
    /\ rc = NoRace /\ gc = NoClass
    /\ TransInit

SpecTrans == InitTrans /\ [][TransNext]_vars

\* C38: after SetTransition(t) with t >= 0, Transition() returns t rounded
\* down to a multiple of 100 ms, the transitiontime of the next state PUT is
\* floor(t / 100 ms), and the stored value is that number (it has not wrapped)
C38_TransitionRoundsDown ==
    tr.done =>
        /\ tr.got = (tr.t \div 100) * 100
        /\ tr.sent = tr.t \div 100
        /\ tr.stored = tr.t \div 100

(***************************************************************************)
(* The class of a Group.  GroupClass is a uint8; a JSON value is the       *)
(* sequence of its bytes, the quotes included, and d[k] of the code is     *)
(* ByteAt(d, k).                                                           *)
(***************************************************************************)
ClassInvalid == 0
ClassAttic == 1
ClassBalcony == 2
ClassBarbecue == 3
ClassBathroom == 4
ClassBedroom == 5
ClassCarport == 6
ClassCloset == 7
ClassComputer == 8
ClassDining == 9
ClassDownstairs == 10
ClassDriveway == 11
ClassFrontDoor == 12
ClassGarage == 13
ClassGarden == 14
ClassGuestRoom == 15
ClassGym == 16
ClassHallway == 17
ClassHome == 18
ClassKidsBedroom == 19
ClassKitchen == 20
ClassLaundryRoom == 21
ClassLivingRoom == 22
ClassLounge == 23
ClassManCave == 24
ClassMusic == 25
ClassNursery == 26
ClassOffice == 27
ClassOther == 28
ClassPool == 29
ClassPorch == 30
ClassReading == 31
ClassRecreation == 32
ClassStaircase == 33
ClassStorage == 34
ClassStudio == 35
ClassTV == 36
ClassTerrace == 37
ClassToilet == 38
ClassTopFloor == 39
ClassUpstairs == 40

Classes == ClassInvalid..ClassUpstairs

\* GroupClass.String, by class number
ClassNames ==
    <<<<"A", "u", "t", "o", "/", "I", "n", "v", "a", "l", "i", "d">>,
      <<"A", "t", "t", "i", "c">>,
      <<"B", "a", "l", "c", "o", "n", "y">>,
      <<"B", "a", "r", "b", "e", "c", "u", "e">>,
      <<"B", "a", "t", "h", "r", "o", "o", "m">>,
      <<"B", "e", "d", "r", "o", "o", "m">>,
      <<"C", "a", "r", "p", "o", "r", "t">>,
      <<"C", "l", "o", "s", "e", "t">>,
      <<"C", "o", "m", "p", "u", "t", "e", "r">>,
      <<"D", "i", "n", "i", "n", "g">>,
      <<"D", "o", "w", "n", "s", "t", "a", "i", "r", "s">>,
      <<"D", "r", "i", "v", "e", "w", "a", "y">>,
      <<"F", "r", "o", "n", "t", " ", "d", "o", "o", "r">>,
      <<"G", "a", "r", "a", "g", "e">>,
      <<"G", "a", "r", "d", "e", "n">>,
      <<"G", "u", "e", "s", "t", " ", "r", "o", "o", "m">>,
      <<"G", "y", "m">>,
      <<"H", "a", "l", "l", "w", "a", "y">>,
      <<"H", "o", "m", "e">>,
      <<"K", "i", "d", "s", " ", "b", "e", "d", "r", "o", "o", "m">>,
      <<"K", "i", "t", "c", "h", "e", "n">>,
      <<"L", "a", "u", "n", "d", "r", "y", " ", "r", "o", "o", "m">>,
      <<"L", "i", "v", "i", "n", "g", " ", "r", "o", "o", "m">>,
      <<"L", "o", "u", "n", "g", "e">>,
      <<"M", "a", "n", " ", "c", "a", "v", "e">>,
      <<"M", "u", "s", "i", "c">>,
      <<"N", "u", "r", "s", "e", "r", "y">>,
      <<"O", "f", "f", "i", "c", "e">>,
      <<"O", "t", "h", "e", "r">>,
      <<"P", "o", "o", "l">>,
      <<"P", "o", "r", "c", "h">>,
      <<"R", "e", "a", "d", "i", "n", "g">>,
      <<"R", "e", "c", "r", "e", "a", "t", "i", "o", "n">>,
      <<"S", "t", "a", "i", "r", "c", "a", "s", "e">>,
      <<"S", "t", "o", "r", "a", "g", "e">>,
      <<"S", "t", "u", "d", "i", "o">>,
      <<"T", "V">>,
      <<"T", "e", "r", "r", "a", "c", "e">>,
      <<"T", "o", "i", "l", "e", "t">>,
      <<"T", "o", "p", " ", "f", "l", "o", "o", "r">>,
      <<"U", "p", "s", "t", "a", "i", "r", "s">>>>

GroupClassString(r) == IF r \in Classes THEN ClassNames[r + 1] ELSE ClassNames[ClassOther + 1]

\* GroupClass.MarshalJSON
GroupClassMarshalJSON(r) == <<"\"">> \o GroupClassString(r) \o <<"\"">>

ByteAt(d, k) == d[k + 1]

\* the cases of the switch of GroupClass.UnmarshalJSON, in order:
\* d[1] == c1 && d[k] == c2 gives class
ClassCases ==
    <<[c1 |-> "T", k |-> 2, c2 |-> "V", class |-> ClassTV],
      [c1 |-> "G", k |-> 3, c2 |-> "m", class |-> ClassGym],
      [c1 |-> "A", k |-> 3, c2 |-> "t", class |-> ClassAttic],
      [c1 |-> "B", k |-> 3, c2 |-> "l", class |-> ClassBalcony],
      [c1 |-> "B", k |-> 3, c2 |-> "r", class |-> ClassBarbecue],
      [c1 |-> "B", k |-> 3, c2 |-> "t", class |-> ClassBathroom],
      [c1 |-> "B", k |-> 3, c2 |-> "d", class |-> ClassBedroom],
      [c1 |-> "C", k |-> 3, c2 |-> "r", class |-> ClassCarport],
      [c1 |-> "C", k |-> 3, c2 |-> "o", class |-> ClassCloset],
      [c1 |-> "C", k |-> 3, c2 |-> "m", class |-> ClassComputer],
      [c1 |-> "D", k |-> 3, c2 |-> "n", class |-> ClassDining],
      [c1 |-> "D", k |-> 3, c2 |-> "w", class |-> ClassDownstairs],
      [c1 |-> "D", k |-> 3, c2 |-> "i", class |-> ClassDriveway],
      [c1 |-> "F", k |-> 3, c2 |-> "o", class |-> ClassFrontDoor],
      [c1 |-> "G", k |-> 4, c2 |-> "a", class |-> ClassGarage],
      [c1 |-> "G", k |-> 4, c2 |-> "d", class |-> ClassGarden],
      [c1 |-> "G", k |-> 3, c2 |-> "e", class |-> ClassGuestRoom],
      [c1 |-> "H", k |-> 3, c2 |-> "l", class |-> ClassHallway],
      [c1 |-> "H", k |-> 3, c2 |-> "m", class |-> ClassHome],
      [c1 |-> "K", k |-> 3, c2 |-> "d", class |-> ClassKidsBedroom],
      [c1 |-> "K", k |-> 3, c2 |-> "t", class |-> ClassKitchen],
      [c1 |-> "L", k |-> 4, c2 |-> "n", class |-> ClassLaundryRoom],
      [c1 |-> "L", k |-> 4, c2 |-> "i", class |-> ClassLivingRoom],
      [c1 |-> "L", k |-> 2, c2 |-> "o", class |-> ClassLounge],
      [c1 |-> "M", k |-> 3, c2 |-> "n", class |-> ClassManCave],
      [c1 |-> "M", k |-> 3, c2 |-> "s", class |-> ClassMusic],
      [c1 |-> "N", k |-> 3, c2 |-> "r", class |-> ClassNursery],
      [c1 |-> "O", k |-> 3, c2 |-> "f", class |-> ClassOffice],
      [c1 |-> "O", k |-> 3, c2 |-> "h", class |-> ClassOther],
      [c1 |-> "P", k |-> 3, c2 |-> "o", class |-> ClassPool],
      [c1 |-> "P", k |-> 3, c2 |-> "r", class |-> ClassPorch],
      [c1 |-> "R", k |-> 3, c2 |-> "a", class |-> ClassReading],
      [c1 |-> "R", k |-> 3, c2 |-> "c", class |-> ClassRecreation],
      [c1 |-> "S", k |-> 3, c2 |-> "a", class |-> ClassStaircase],
      [c1 |-> "S", k |-> 3, c2 |-> "o", class |-> ClassStorage],
      [c1 |-> "S", k |-> 3, c2 |-> "u", class |-> ClassStudio],
      [c1 |-> "T", k |-> 3, c2 |-> "r", class |-> ClassTerrace],
      [c1 |-> "T", k |-> 3, c2 |-> "i", class |-> ClassToilet],
      [c1 |-> "T", k |-> 3, c2 |-> "p", class |-> ClassTopFloor],
      [c1 |-> "U", k |-> 3, c2 |-> "s", class |-> ClassUpstairs]>>

\* GroupClass.UnmarshalJSON: the first case that holds assigns *r, none leaves
\* it; a case that reads d[4] of a four-byte value panics
GroupClassUnmarshalJSON(prev, d) ==
    LET first(i) == ByteAt(d, 1) = ClassCases[i].c1
        reads(i) == first(i) /\ ClassCases[i].k >= Len(d)
        holds(i) == first(i) /\ ClassCases[i].k < Len(d)
                    /\ ByteAt(d, ClassCases[i].k) = ClassCases[i].c2
        stops == {i \in 1..Len(ClassCases) : reads(i) \/ holds(i)}
    IN IF Len(d) < 4 \/ ByteAt(d, 0) # "\"" THEN [class |-> prev, err |-> "invalid"]
       ELSE IF stops = {} THEN [class |-> prev, err |-> "nil"]
       ELSE \* the first case in order
            LET i == CHOOSE x \in stops : \A y \in stops : x <= y
            IN IF reads(i) THEN [class |-> prev, err |-> "panic"]
               ELSE [class |-> ClassCases[i].class, err |-> "nil"]

\* the class a Group holds before the decoding: zero in a new Group
PrevClasses == {ClassInvalid, ClassOther, ClassUpstairs}

ClassInit ==
    \E c \in Classes : \E p \in PrevClasses :
       gc = [NoClass EXCEPT !.class = c, !.prev = p]

\* encode the class, decode the bytes into a GroupClass holding prev
ClassRoundTrip ==
    /\ ~gc.done
    /\ \E d \in {GroupClassMarshalJSON(gc.class)} :
       \E u \in {GroupClassUnmarshalJSON(gc.prev, d)} :
          gc' = [gc EXCEPT !.done = TRUE, !.name = d, !.back = u.class, !.err = u.err]
    /\ UNCHANGED <<recVars, hexVars, bridgeVars, lockVars, valVars, gamVars,
                   rt, ack, dec, gf, rc, tr>>

ClassNext == ClassRoundTrip

InitClass ==
    /\ RecStart("L1", FALSE, NilGamut) /\ HexIdle /\ BridgeIdle /\ LockIdle /\ ValIdle /\ GamIdle
    /\ rt = NoTrip /\ ack = NoAck /\ dec = NoDecode /\ gf = NoFetch
    /\ rc = NoRace /\ tr = NoTransition
    /\ ClassInit

SpecClass == InitClass /\ [][ClassNext]_vars

\* C39: the JSON name of every declared class decodes, without error, to
\* that class again (so no two classes decode from each other's names)
C39_ClassRoundTrip ==
    gc.done => (gc.err = "nil" /\ gc.back = gc.class)

====
